---------------------------- MODULE Spec2Model ----------------------------
(***************************************************************************)
(* Model of the AMM game backend (galharel23/amm-game).                    *)
(*                                                                         *)
(* Two independent sub-systems are modelled:                               *)
(*   - the pool service (src/app): constant-product pools, the swap        *)
(*     routes and the transaction ledger;                                  *)
(*   - the experiment service (src/api/app): experiments, groups, rounds   *)
(*     and the per-group ExperimentRound pool instances.                   *)
(*                                                                         *)
(* Quantities.  A stored NUMERIC(.., 8) value is an integer count of the   *)
(* smallest storable unit (1e-8); a stored NUMERIC(.., 16) product is an   *)
(* integer count of squared units.  A Python Decimal held in memory is an  *)
(* exact rational [n, d] (the 28-digit context precision is far finer than *)
(* the 8 stored digits and is treated as exact).  Writing a Decimal to a   *)
(* NUMERIC column rounds it to the column scale (Quantize).                *)
(*                                                                         *)
(* Request handlers run concurrently, one database session each, under the *)
(* default READ COMMITTED isolation and without row locks: a handler is    *)
(* split where it reads (SELECT) and where it commits.                     *)
(***************************************************************************)
EXTENDS Integers, Sequences, FiniteSets, TLC

(***************************************************************************)
(* Bounds of the model.                                                    *)
(***************************************************************************)
MaxSeedReserve == 10
MaxAmountIn == 1
MaxTx == 2
SubUnit == 4

NULL == 0

PoolIds == {1, 2}
UnknownPoolId == 3
SwapSessions == {1, 2}
Sessions == {1, 2}

(***************************************************************************)
(* Decimal arithmetic (python decimal.Decimal), as exact rationals with a  *)
(* positive denominator.                                                   *)
(***************************************************************************)
Rat(n, d) == [n |-> n, d |-> d]

Dec(i) == Rat(i, 1)

RatAdd(a, b) == Rat(a.n * b.d + b.n * a.d, a.d * b.d)

RatSub(a, b) == Rat(a.n * b.d - b.n * a.d, a.d * b.d)

RatMul(a, b) == Rat(a.n * b.n, a.d * b.d)

\* a / b for b > 0
RatDiv(a, b) == Rat(a.n * b.d, a.d * b.n)

RatLt(a, b) == a.n * b.d < b.n * a.d

RatLe(a, b) == a.n * b.d <= b.n * a.d

RatEq(a, b) == a.n * b.d = b.n * a.d

Abs(i) == IF i < 0 THEN -i ELSE i

\* PostgreSQL rounds a numeric to the column scale, ties away from zero.
Quantize(r) ==
    IF r.n >= 0 THEN (2 * r.n + r.d) \div (2 * r.d)
    ELSE -((2 * (-r.n) + r.d) \div (2 * r.d))

VARIABLES
    pools,          \* pool service: committed rows of table "pools"
    transactions,   \* pool service: committed rows of table "transactions"
    swapSess,       \* pool service: one in-flight swap request per session
    swapResp,       \* pool service: outcome of the last answered request
    committed,      \* history: the swaps committed so far, in commit order
    seeded,         \* history: the pool rows as they were created
    poolObj,        \* invariant engine: one Pool object held in memory
    call,           \* invariant engine: the last method call on poolObj
    experiments,    \* experiment service: committed rows of "experiments"
    groups,         \* experiment service: committed rows of "groups"
    rounds,         \* experiment service: committed rows of "rounds"
    experiment_rounds, \* experiment service: committed rows of "experiment_rounds"
    sess,           \* experiment service: one in-flight request per session
    resp,           \* experiment service: outcome of the last answered request
    clock,          \* experiment service: datetime.now(), a logical clock
    users,          \* experiment service: ids of the committed rows of "users"
    round_transactions, \* experiment service: committed rows of "transactions"
    player_balances, \* experiment service: committed rows of "player_balances"
    player_currency_knowledge, \* experiment service: rows of "player_currency_knowledge"
    player_group    \* experiment service: column group_id of "player_users"

swapVars == <<pools, transactions, swapSess, swapResp, committed, seeded>>

engineVars == <<poolObj, call>>

dbVars == <<experiments, groups, rounds, experiment_rounds>>

ledgerVars == <<users, round_transactions, player_balances, player_currency_knowledge,
                player_group>>

lifeVars == <<experiments, groups, rounds, experiment_rounds, sess, resp, clock,
              users, round_transactions, player_balances, player_currency_knowledge,
              player_group>>

vars == <<pools, transactions, swapSess, swapResp, committed, seeded, poolObj, call,
          experiments, groups, rounds, experiment_rounds, sess, resp, clock,
          users, round_transactions, player_balances, player_currency_knowledge,
          player_group>>

(***************************************************************************)
(* Pool (src/app/models/pool.py): the in-memory ORM object.                *)
(***************************************************************************)
\* The object loaded from a committed row.
PoolObject(row) ==
    [x_reserve |-> Dec(row.x_reserve), y_reserve |-> Dec(row.y_reserve),
     K |-> Dec(row.K)]

\* Mutant: the division uses the reserve before the deposit.
Pool_swap_x_for_y_stale_divisor(self, dx) ==
    IF RatLe(dx, Dec(0))
    THEN [error |-> "ValueError", pool |-> self, amount_out |-> Dec(0)]
    ELSE LET x_new == RatAdd(self.x_reserve, dx)
             y_new == RatDiv(self.K, self.x_reserve)
             dy == RatSub(self.y_reserve, y_new)
         IN [error |-> "none",
             pool |-> [self EXCEPT !.x_reserve = x_new, !.y_reserve = y_new],
             amount_out |-> dy]

\* Mutant: the deposit is subtracted from the reserve instead of added.
Pool_swap_x_for_y_subtracts(self, dx) ==
    IF RatLe(dx, Dec(0))
    THEN [error |-> "ValueError", pool |-> self, amount_out |-> Dec(0)]
    ELSE LET x_new == RatSub(self.x_reserve, dx)
             y_new == RatDiv(self.K, RatAdd(self.x_reserve, dx))
             dy == RatSub(y_new, self.y_reserve)
         IN [error |-> "none",
             pool |-> [self EXCEPT !.x_reserve = x_new, !.y_reserve = y_new],
             amount_out |-> dy]

Pool_swap_x_for_y(self, dx) ==
    IF RatLe(dx, Dec(0))
    THEN [error |-> "ValueError", pool |-> self, amount_out |-> Dec(0)]
    ELSE LET x_new == RatAdd(self.x_reserve, dx)
             y_new == RatDiv(self.K, x_new)
             dy == RatSub(self.y_reserve, y_new)
         IN [error |-> "none",
             pool |-> [self EXCEPT !.x_reserve = x_new, !.y_reserve = y_new],
             amount_out |-> dy]

\* Mutant: K is recomputed inside the swap, from the reserve before the
\* withdrawal and the reserve after the deposit.
Pool_swap_y_for_x_recomputes_K(self, dy) ==
    IF RatLe(dy, Dec(0))
    THEN [error |-> "ValueError", pool |-> self, amount_out |-> Dec(0)]
    ELSE LET y_new == RatAdd(self.y_reserve, dy)
             x_new == RatDiv(self.K, y_new)
             dx == RatSub(self.x_reserve, x_new)
         IN [error |-> "none",
             pool |-> [x_reserve |-> x_new, y_reserve |-> y_new,
                       K |-> RatMul(self.x_reserve, y_new)],
             amount_out |-> dx]

\* Mutant: the dy <= 0 check is missing.
Pool_swap_y_for_x_unguarded(self, dy) ==
    LET y_new == RatAdd(self.y_reserve, dy)
        x_new == RatDiv(self.K, y_new)
        dx == RatSub(self.x_reserve, x_new)
    IN [error |-> "none",
        pool |-> [self EXCEPT !.y_reserve = y_new, !.x_reserve = x_new],
        amount_out |-> dx]

Pool_swap_y_for_x(self, dy) ==
    IF RatLe(dy, Dec(0))
    THEN [error |-> "ValueError", pool |-> self, amount_out |-> Dec(0)]
    ELSE LET y_new == RatAdd(self.y_reserve, dy)
             x_new == RatDiv(self.K, y_new)
             dx == RatSub(self.x_reserve, x_new)
         IN [error |-> "none",
             pool |-> [self EXCEPT !.y_reserve = y_new, !.x_reserve = x_new],
             amount_out |-> dx]

Pool_swap(dir, self, amount) ==
    IF dir = "x_for_y" THEN Pool_swap_x_for_y(self, amount)
    ELSE Pool_swap_y_for_x(self, amount)

\* Pool.add_liquidity: both reserves grow and K is recomputed from them.
Pool_add_liquidity(self, dx, dy) ==
    IF RatLt(dx, Dec(0)) \/ RatLt(dy, Dec(0))
    THEN [error |-> "ValueError", pool |-> self]
    ELSE LET x_new == RatAdd(self.x_reserve, dx)
             y_new == RatAdd(self.y_reserve, dy)
         IN [error |-> "none",
             pool |-> [x_reserve |-> x_new, y_reserve |-> y_new,
                       K |-> RatMul(x_new, y_new)]]

\* Mutant: the check of the reserves against the amounts removed is missing.
Pool_remove_liquidity_unchecked(self, dx, dy) ==
    IF RatLt(dx, Dec(0)) \/ RatLt(dy, Dec(0))
    THEN [error |-> "ValueError", pool |-> self]
    ELSE LET x_new == RatSub(self.x_reserve, dx)
             y_new == RatSub(self.y_reserve, dy)
         IN [error |-> "none",
             pool |-> [x_reserve |-> x_new, y_reserve |-> y_new,
                       K |-> RatMul(x_new, y_new)]]

\* Pool.remove_liquidity: both reserves shrink and K is recomputed from them.
Pool_remove_liquidity(self, dx, dy) ==
    IF RatLt(dx, Dec(0)) \/ RatLt(dy, Dec(0))
    THEN [error |-> "ValueError", pool |-> self]
    ELSE IF RatLt(self.x_reserve, dx) \/ RatLt(self.y_reserve, dy)
    THEN [error |-> "ValueError", pool |-> self]
    ELSE LET x_new == RatSub(self.x_reserve, dx)
             y_new == RatSub(self.y_reserve, dy)
         IN [error |-> "none",
             pool |-> [x_reserve |-> x_new, y_reserve |-> y_new,
                       K |-> RatMul(x_new, y_new)]]

(***************************************************************************)
(* Pool service: requests (src/app/pools/schemas.py, routes.py).           *)
(***************************************************************************)
Directions == {"x_for_y", "y_for_x"}

\* Request amounts: zero, whole units, and one positive amount finer than
\* the storable unit (a float such as 2.5e-9).
AmountsIn == {Dec(n) : n \in 0..MaxAmountIn} \cup {Rat(1, SubUnit)}

MinAmountsOut == {Dec(0), Dec(1)}

\* SwapXForYRequest / SwapYForXRequest: amount_in gt=0, min_amount_out ge=0.
SwapRequestValid(amount_in, min_amount_out) ==
    /\ RatLt(Dec(0), amount_in)
    /\ RatLe(Dec(0), min_amount_out)

IdleSwap ==
    [pc |-> "idle", pool_id |-> NULL, dir |-> "x_for_y", amount_in |-> Dec(0),
     loaded |-> [x_reserve |-> 0, y_reserve |-> 0, K |-> 0],
     pool |-> PoolObject([x_reserve |-> 0, y_reserve |-> 0, K |-> 0]),
     amount_out |-> Dec(0), min_amount_out |-> Dec(0), seen |-> 0]

\* History: how many swaps have been committed on a pool.
CommitsOn(pid) == Cardinality({i \in 1..Len(committed) : committed[i].pool_id = pid})

\* The swaps begun and not yet answered.
InFlight == Cardinality({s \in SwapSessions : swapSess[s].pc = "swapped"})

\* Currency ids of a pool: X and Y.
CurrencyIn(dir) == IF dir = "x_for_y" THEN "X" ELSE "Y"

CurrencyOut(dir) == IF dir = "x_for_y" THEN "Y" ELSE "X"

\* Mutant: the price is the input per unit of output.
create_transaction_record_inverse_price(pool_id, currency_in_id, currency_out_id, amount_in, amount_out) ==
    LET price_execution ==
            IF RatLt(Dec(0), amount_in) THEN RatDiv(amount_in, amount_out) ELSE Dec(0)
    IN [pool_id |-> pool_id,
        currency_in_id |-> currency_in_id,
        currency_out_id |-> currency_out_id,
        amount_in |-> Quantize(amount_in),
        amount_out |-> Quantize(amount_out),
        price_execution |-> price_execution]

\* price_execution is kept exact (its column scale, 16, is not modelled).
create_transaction_record(pool_id, currency_in_id, currency_out_id, amount_in, amount_out) ==
    LET price_execution ==
            IF RatLt(Dec(0), amount_in) THEN RatDiv(amount_out, amount_in) ELSE Dec(0)
    IN [pool_id |-> pool_id,
        currency_in_id |-> currency_in_id,
        currency_out_id |-> currency_out_id,
        amount_in |-> Quantize(amount_in),
        amount_out |-> Quantize(amount_out),
        price_execution |-> price_execution]

\* The request body fails validation (422): the handler is never entered.
swap_invalid_request(pid, dir, amount_in, min_out) ==
    /\ ~SwapRequestValid(amount_in, min_out)
    /\ swapResp' = "422"
    /\ UNCHANGED <<pools, transactions, swapSess, committed, seeded, engineVars, lifeVars>>

\* repo_get_pool raises PoolNotFoundError (404).
swap_pool_not_found(pid, dir, amount_in, min_out) ==
    /\ SwapRequestValid(amount_in, min_out)
    /\ pid \notin DOMAIN pools
    /\ swapResp' = "404"
    /\ UNCHANGED <<pools, transactions, swapSess, committed, seeded, engineVars, lifeVars>>

\* Mutant: the changed pool is written before the slippage check rejects.
swap_slippage_exceeded_persists(pid, dir, amount_in, min_out) ==
    /\ SwapRequestValid(amount_in, min_out)
    /\ pid \in DOMAIN pools
    /\ LET res == Pool_swap(dir, PoolObject(pools[pid]), amount_in)
       IN /\ res.error = "none"
          /\ RatLt(res.amount_out, min_out)
          /\ pools' = [pools EXCEPT ![pid] =
                 [@ EXCEPT !.x_reserve = Quantize(res.pool.x_reserve),
                           !.y_reserve = Quantize(res.pool.y_reserve)]]
    /\ swapResp' = "slippage"
    /\ UNCHANGED <<transactions, swapSess, committed, seeded, engineVars, lifeVars>>

\* The slippage check fails: HTTPException(400).  The handler has only read;
\* the session is closed without a commit, so the changes of the in-memory
\* object are discarded.
swap_slippage_exceeded(pid, dir, amount_in, min_out) ==
    /\ SwapRequestValid(amount_in, min_out)
    /\ pid \in DOMAIN pools
    /\ LET res == Pool_swap(dir, PoolObject(pools[pid]), amount_in)
       IN /\ res.error = "none"
          /\ RatLt(res.amount_out, min_out)
    /\ swapResp' = "slippage"
    /\ UNCHANGED <<pools, transactions, swapSess, committed, seeded, engineVars, lifeVars>>

\* get_pool: SELECT the pool row (no lock), run the swap on the loaded
\* object, pass the slippage check.  Nothing is written to the database yet:
\* the session holds the changed object until swap_commit.
swap_begin(s, pid, dir, amount_in, min_out) ==
    /\ swapSess[s].pc = "idle"
    /\ Len(transactions) + InFlight < MaxTx
    /\ SwapRequestValid(amount_in, min_out)
    /\ pid \in DOMAIN pools
    /\ LET row == pools[pid]
           res == Pool_swap(dir, PoolObject(row), amount_in)
       IN /\ res.error = "none"
          /\ ~RatLt(res.amount_out, min_out)
          /\ swapSess' = [swapSess EXCEPT ![s] =
                 [pc |-> "swapped", pool_id |-> pid, dir |-> dir,
                  amount_in |-> amount_in,
                  loaded |-> [x_reserve |-> row.x_reserve,
                              y_reserve |-> row.y_reserve, K |-> row.K],
                  pool |-> res.pool, amount_out |-> res.amount_out,
                  min_amount_out |-> min_out,
                  seen |-> CommitsOn(pid)]]
    /\ UNCHANGED <<pools, transactions, swapResp, committed, seeded, engineVars, lifeVars>>

\* Mutant: the UPDATE has no WHERE clause: the reserves are written to the
\* row of every pool.
swap_commit_every_pool(s) ==
    LET r == swapSess[s] IN
    /\ r.pc = "swapped"
    /\ pools' = [q \in DOMAIN pools |->
           [pools[q] EXCEPT !.x_reserve = Quantize(r.pool.x_reserve),
                            !.y_reserve = Quantize(r.pool.y_reserve)]]
    /\ transactions' = Append(transactions,
           create_transaction_record(r.pool_id, CurrencyIn(r.dir), CurrencyOut(r.dir),
                                     r.amount_in, r.amount_out))
    /\ committed' = Append(committed,
           [pool_id |-> r.pool_id, dir |-> r.dir, amount_in |-> r.amount_in,
            seen |-> r.seen])
    /\ swapResp' = "ok"
    /\ swapSess' = [swapSess EXCEPT ![s] = IdleSwap]
    /\ UNCHANGED <<seeded, engineVars, lifeVars>>

\* db.add(pool); create_transaction_record(...); db.commit(): one database
\* transaction writes the two reserves (UPDATE by primary key) and inserts
\* the ledger row.
swap_commit(s) ==
    LET r == swapSess[s] IN
    /\ r.pc = "swapped"
    /\ pools' = [pools EXCEPT ![r.pool_id] =
           [@ EXCEPT !.x_reserve = Quantize(r.pool.x_reserve),
                     !.y_reserve = Quantize(r.pool.y_reserve)]]
    /\ transactions' = Append(transactions,
           create_transaction_record(r.pool_id, CurrencyIn(r.dir), CurrencyOut(r.dir),
                                     r.amount_in, r.amount_out))
    /\ committed' = Append(committed,
           [pool_id |-> r.pool_id, dir |-> r.dir, amount_in |-> r.amount_in,
            seen |-> r.seen])
    /\ swapResp' = "ok"
    /\ swapSess' = [swapSess EXCEPT ![s] = IdleSwap]
    /\ UNCHANGED <<seeded, engineVars, lifeVars>>

\* Mutant: the reserves are committed on their own before the ledger row is
\* inserted, so a failure in between leaves them written.
swap_commit_fails_after_reserves(s) ==
    LET r == swapSess[s] IN
    /\ r.pc = "swapped"
    /\ pools' = [pools EXCEPT ![r.pool_id] =
           [@ EXCEPT !.x_reserve = Quantize(r.pool.x_reserve),
                     !.y_reserve = Quantize(r.pool.y_reserve)]]
    /\ swapResp' = "500"
    /\ swapSess' = [swapSess EXCEPT ![s] = IdleSwap]
    /\ UNCHANGED <<transactions, committed, seeded, engineVars, lifeVars>>

\* db.commit() raises (the INSERT of the ledger row or the COMMIT fails): the
\* database rolls the transaction back, the exception leaves the handler
\* and get_db closes the session.
swap_commit_fails(s) ==
    /\ swapSess[s].pc = "swapped"
    /\ swapResp' = "500"
    /\ swapSess' = [swapSess EXCEPT ![s] = IdleSwap]
    /\ UNCHANGED <<pools, transactions, committed, seeded, engineVars, lifeVars>>

(***************************************************************************)
(* Pool service: specification.  The pools exist from the start (created   *)
(* by create_pool with K = x_init * y_init); the ledger is empty.          *)
(***************************************************************************)
SeedReserves == {1, MaxSeedReserve}

NoCall == [method |-> "none", amount |-> Dec(0), amount_y |-> Dec(0), error |-> "none",
           before |-> PoolObject([x_reserve |-> 0, y_reserve |-> 0, K |-> 0]),
           after |-> PoolObject([x_reserve |-> 0, y_reserve |-> 0, K |-> 0]),
           amount_out |-> Dec(0), n |-> 0]

EngineOff ==
    /\ poolObj = PoolObject([x_reserve |-> 0, y_reserve |-> 0, K |-> 0])
    /\ call = NoCall

\* The registered users: one admin and two players.
Users == {"admin", "player", "player2"}
AdminUsers == {"admin"}

IdleSess == [pc |-> "idle", id |-> NULL, seen |-> << >>, group_ids |-> {}, x |-> 0, y |-> 0]

NoResp == [op |-> "none", status |-> "none"]

LifeOff ==
    /\ experiments = << >>
    /\ groups = << >>
    /\ rounds = << >>
    /\ experiment_rounds = << >>
    /\ sess = [s \in Sessions |-> IdleSess]
    /\ resp = NoResp
    /\ clock = 1
    /\ users = Users
    /\ round_transactions = << >>
    /\ player_balances = << >>
    /\ player_currency_knowledge = << >>
    /\ player_group = [p \in Users \ AdminUsers |-> NULL]

SwapOff ==
    /\ pools = << >>
    /\ transactions = << >>
    /\ swapSess = [s \in SwapSessions |-> IdleSwap]
    /\ swapResp = "none"
    /\ committed = << >>
    /\ seeded = << >>

InitSwap ==
    /\ \E x \in SeedReserves, y \in SeedReserves :
           pools = [p \in PoolIds |-> [x_reserve |-> x, y_reserve |-> y, K |-> x * y]]
    /\ seeded = pools
    /\ transactions = << >>
    /\ swapSess = [s \in SwapSessions |-> IdleSwap]
    /\ swapResp = "none"
    /\ committed = << >>
    /\ EngineOff
    /\ LifeOff

\* Validation looks at the amounts only: the pool and the direction of a
\* request it rejects take one value each.
SwapInvalidRequest ==
    \E a \in AmountsIn, m \in MinAmountsOut : swap_invalid_request(1, "x_for_y", a, m)

\* The lookup fails for the id of no pool, whatever swap was asked for.
SwapPoolNotFound ==
    \E pid \in PoolIds \cup {UnknownPoolId}, a \in AmountsIn :
        swap_pool_not_found(pid, "x_for_y", a, Dec(0))

SwapBegin ==
    \E s \in SwapSessions, pid \in PoolIds \cup {UnknownPoolId}, dir \in Directions,
       a \in AmountsIn, m \in MinAmountsOut :
        \* the sessions are interchangeable: a request takes the first free one
        /\ \A t \in SwapSessions : t < s => swapSess[t].pc # "idle"
        /\ swap_begin(s, pid, dir, a, m)

SwapSlippageExceeded ==
    \E pid \in PoolIds \cup {UnknownPoolId}, dir \in Directions,
       a \in AmountsIn, m \in MinAmountsOut : swap_slippage_exceeded(pid, dir, a, m)

SwapCommit == \E s \in SwapSessions : swap_commit(s)

SwapCommitFails == \E s \in SwapSessions : swap_commit_fails(s)

NextSwap ==
    \/ SwapInvalidRequest
    \/ SwapPoolNotFound
    \/ SwapBegin
    \/ SwapSlippageExceeded
    \/ SwapCommit
    \/ SwapCommitFails

SpecSwap == InitSwap /\ [][NextSwap]_vars

\* The pool of the worked example: 1000 of each currency, K = 1,000,000.
ExamplePool == [x_reserve |-> 1000, y_reserve |-> 1000, K |-> 1000000]

ExampleAmountsIn == {Dec(100)}

ExampleMinAmountsOut == {Dec(0), Dec(90), Dec(91)}

InitExample ==
    /\ pools = [p \in {1} |-> ExamplePool]
    /\ seeded = pools
    /\ transactions = << >>
    /\ swapSess = [s \in SwapSessions |-> IdleSwap]
    /\ swapResp = "none"
    /\ committed = << >>
    /\ EngineOff
    /\ LifeOff

ExampleSwapBegin ==
    \E s \in SwapSessions, dir \in Directions, a \in ExampleAmountsIn,
       m \in ExampleMinAmountsOut :
        /\ \A t \in SwapSessions : t < s => swapSess[t].pc # "idle"
        /\ swap_begin(s, 1, dir, a, m)

ExampleSlippageExceeded ==
    \E dir \in Directions, a \in ExampleAmountsIn, m \in ExampleMinAmountsOut :
        swap_slippage_exceeded(1, dir, a, m)

NextExample ==
    \/ ExampleSwapBegin
    \/ ExampleSlippageExceeded
    \/ SwapCommit

SpecExample == InitExample /\ [][NextExample]_vars

(***************************************************************************)
(* Invariant engine: the Pool methods applied to one object in memory.     *)
(* The object starts as a freshly created pool (K = x * y); Engine_persist *)
(* is the round trip through the database row (commit, then refresh).      *)
(***************************************************************************)
MaxEngineReserve == 3
MaxEngineCalls == 2
MaxEngineAmount == 2

EngineAmounts == {Dec(n) : n \in (-1)..MaxEngineAmount} \cup {Rat(1, SubUnit)}

\* Amounts of liquidity: whole units, one of them negative.
LiquidityAmounts == {Dec(n) : n \in (-1)..MaxEngineAmount}

InitEngine ==
    /\ \E x \in 1..MaxEngineReserve, y \in 1..MaxEngineReserve :
           poolObj = PoolObject([x_reserve |-> x, y_reserve |-> y, K |-> x * y])
    /\ call = NoCall
    /\ SwapOff
    /\ LifeOff

SwapMethods == {"swap_x_for_y", "swap_y_for_x"}

LiquidityMethods == {"add_liquidity", "remove_liquidity"}

Engine_swap_x_for_y ==
    \E dx \in EngineAmounts :
        /\ call.n < MaxEngineCalls
        /\ LET res == Pool_swap_x_for_y(poolObj, dx)
           IN /\ poolObj' = res.pool
              /\ call' = [method |-> "swap_x_for_y", amount |-> dx, amount_y |-> Dec(0),
                          error |-> res.error,
                          before |-> poolObj, after |-> res.pool,
                          amount_out |-> res.amount_out, n |-> call.n + 1]
        /\ UNCHANGED <<swapVars, lifeVars>>

Engine_swap_y_for_x ==
    \E dy \in EngineAmounts :
        /\ call.n < MaxEngineCalls
        /\ LET res == Pool_swap_y_for_x(poolObj, dy)
           IN /\ poolObj' = res.pool
              /\ call' = [method |-> "swap_y_for_x", amount |-> dy, amount_y |-> Dec(0),
                          error |-> res.error,
                          before |-> poolObj, after |-> res.pool,
                          amount_out |-> res.amount_out, n |-> call.n + 1]
        /\ UNCHANGED <<swapVars, lifeVars>>

Engine_add_liquidity ==
    \E dx \in LiquidityAmounts, dy \in LiquidityAmounts :
        /\ call.n < MaxEngineCalls
        /\ LET res == Pool_add_liquidity(poolObj, dx, dy)
           IN /\ poolObj' = res.pool
              /\ call' = [method |-> "add_liquidity", amount |-> dx, amount_y |-> dy,
                          error |-> res.error,
                          before |-> poolObj, after |-> res.pool,
                          amount_out |-> Dec(0), n |-> call.n + 1]
        /\ UNCHANGED <<swapVars, lifeVars>>

Engine_remove_liquidity ==
    \E dx \in LiquidityAmounts, dy \in LiquidityAmounts :
        /\ call.n < MaxEngineCalls
        /\ LET res == Pool_remove_liquidity(poolObj, dx, dy)
           IN /\ poolObj' = res.pool
              /\ call' = [method |-> "remove_liquidity", amount |-> dx, amount_y |-> dy,
                          error |-> res.error,
                          before |-> poolObj, after |-> res.pool,
                          amount_out |-> Dec(0), n |-> call.n + 1]
        /\ UNCHANGED <<swapVars, lifeVars>>

\* db.commit(); db.refresh(pool): the attributes are written to their
\* NUMERIC columns and read back.
Engine_persist ==
    /\ poolObj' = PoolObject([x_reserve |-> Quantize(poolObj.x_reserve),
                              y_reserve |-> Quantize(poolObj.y_reserve),
                              K |-> Quantize(poolObj.K)])
    /\ poolObj' # poolObj
    /\ UNCHANGED <<call, swapVars, lifeVars>>

NextEngine ==
    \/ Engine_swap_x_for_y
    \/ Engine_swap_y_for_x
    \/ Engine_add_liquidity
    \/ Engine_remove_liquidity
    \/ Engine_persist

SpecEngine == InitEngine /\ [][NextEngine]_vars

(***************************************************************************)
(* The Pool methods under the precision of the decimal context.  Every     *)
(* Decimal operation rounds its exact result to getcontext().prec          *)
(* significant digits (28 by default, ROUND_HALF_EVEN); DecimalPrec is     *)
(* that precision at the scale of the model.                               *)
(***************************************************************************)
DecimalPrec == 3
MaxTripReserve == 12
MaxTripAmount == 3

RECURSIVE Pow10(_)
Pow10(k) == IF k = 0 THEN 1 ELSE 10 * Pow10(k - 1)

\* n / d >= 0 rounded to an integer, ties to the even neighbour.
RoundHalfEven(n, d) ==
    LET q == n \div d
        rem == n % d
    IN IF 2 * rem > d \/ (2 * rem = d /\ q % 2 = 1) THEN q + 1 ELSE q

RECURSIVE GCD(_, _)
GCD(a, b) == IF b = 0 THEN a ELSE GCD(b, a % b)

\* n / d > 0 scaled by the power of ten that leaves prec digits before the
\* point: [n, d, e] with n / d * 10^e the value and
\* 10^(prec-1) <= n / d < 10^prec.
RECURSIVE Scaled(_, _, _)
Scaled(n, d, e) ==
    IF n >= Pow10(DecimalPrec) * d THEN Scaled(n, d * 10, e + 1)
    ELSE IF n < Pow10(DecimalPrec - 1) * d THEN Scaled(n * 10, d, e - 1)
    ELSE [n |-> n, d |-> d, e |-> e]

\* The exponent of the last kept digit of a value v # 0.
Exponent(v) ==
    LET g == GCD(Abs(v.n), v.d) IN Scaled(Abs(v.n) \div g, v.d \div g, 0).e

\* Context rounding of an exact result: an exact result of at most prec
\* digits is returned as it is.
Ctx(r) ==
    IF r.n = 0 THEN Dec(0)
    ELSE LET g == GCD(Abs(r.n), r.d)
             a == Scaled(Abs(r.n) \div g, r.d \div g, 0)
             c == RoundHalfEven(a.n, a.d)
             sign == IF r.n < 0 THEN -1 ELSE 1
         IN IF a.e >= 0 THEN Rat(sign * c * Pow10(a.e), 1)
            ELSE LET h == GCD(c, Pow10(-a.e))
                 IN Rat(sign * (c \div h), Pow10(-a.e) \div h)

\* Pool.swap_x_for_y, each operation rounded by the context.
Decimal_swap_x_for_y(self, dx) ==
    IF RatLe(dx, Dec(0))
    THEN [error |-> "ValueError", pool |-> self, amount_out |-> Dec(0)]
    ELSE LET x_new == Ctx(RatAdd(self.x_reserve, dx))
             y_new == Ctx(RatDiv(self.K, x_new))
             dy == Ctx(RatSub(self.y_reserve, y_new))
         IN [error |-> "none",
             pool |-> [self EXCEPT !.x_reserve = x_new, !.y_reserve = y_new],
             amount_out |-> dy]

\* Pool.swap_y_for_x, each operation rounded by the context.
Decimal_swap_y_for_x(self, dy) ==
    IF RatLe(dy, Dec(0))
    THEN [error |-> "ValueError", pool |-> self, amount_out |-> Dec(0)]
    ELSE LET y_new == Ctx(RatAdd(self.y_reserve, dy))
             x_new == Ctx(RatDiv(self.K, y_new))
             dx == Ctx(RatSub(self.x_reserve, x_new))
         IN [error |-> "none",
             pool |-> [self EXCEPT !.y_reserve = y_new, !.x_reserve = x_new],
             amount_out |-> dx]

\* Amounts in: 1..MaxTripAmount units, tenths, hundredths, ... down to the
\* last digit the context keeps of a unit.
TripAmounts == {Rat(n, Pow10(k)) : n \in 1..MaxTripAmount, k \in 0..(DecimalPrec - 1)}

\* A pool whose K is the product of its reserves.
InitRoundTrip ==
    /\ \E x \in 1..MaxTripReserve, y \in 1..MaxTripReserve :
           poolObj = PoolObject([x_reserve |-> x, y_reserve |-> y, K |-> x * y])
    /\ call = NoCall
    /\ SwapOff
    /\ LifeOff

\* pool.swap_x_for_y(dx) on the fresh pool.
Trip_swap_x_for_y ==
    \E dx \in TripAmounts :
        /\ call.n = 0
        /\ LET res == Decimal_swap_x_for_y(poolObj, dx)
           IN /\ poolObj' = res.pool
              /\ call' = [method |-> "swap_x_for_y", amount |-> dx, amount_y |-> Dec(0),
                          error |-> res.error,
                          before |-> poolObj, after |-> res.pool,
                          amount_out |-> res.amount_out, n |-> 1]
        /\ UNCHANGED <<swapVars, lifeVars>>

\* pool.swap_y_for_x(dy) with the dy the first swap returned.
Trip_swap_y_for_x ==
    /\ call.n = 1
    /\ LET res == Decimal_swap_y_for_x(poolObj, call.amount_out)
       IN /\ poolObj' = res.pool
          /\ call' = [method |-> "swap_y_for_x", amount |-> call.amount_out,
                      amount_y |-> Dec(0), error |-> res.error,
                      before |-> poolObj, after |-> res.pool,
                      amount_out |-> res.amount_out, n |-> 2]
    /\ UNCHANGED <<swapVars, lifeVars>>

NextRoundTrip ==
    \/ Trip_swap_x_for_y
    \/ Trip_swap_y_for_x

SpecRoundTrip == InitRoundTrip /\ [][NextRoundTrip]_vars

\* Pool.add_liquidity, each operation rounded by the context.
Decimal_add_liquidity(self, dx, dy) ==
    IF RatLt(dx, Dec(0)) \/ RatLt(dy, Dec(0))
    THEN [error |-> "ValueError", pool |-> self]
    ELSE LET x_new == Ctx(RatAdd(self.x_reserve, dx))
             y_new == Ctx(RatAdd(self.y_reserve, dy))
         IN [error |-> "none",
             pool |-> [x_reserve |-> x_new, y_reserve |-> y_new,
                       K |-> Ctx(RatMul(x_new, y_new))]]

\* Pool.remove_liquidity, each operation rounded by the context.
Decimal_remove_liquidity(self, dx, dy) ==
    IF RatLt(dx, Dec(0)) \/ RatLt(dy, Dec(0))
    THEN [error |-> "ValueError", pool |-> self]
    ELSE IF RatLt(self.x_reserve, dx) \/ RatLt(self.y_reserve, dy)
    THEN [error |-> "ValueError", pool |-> self]
    ELSE LET x_new == Ctx(RatSub(self.x_reserve, dx))
             y_new == Ctx(RatSub(self.y_reserve, dy))
         IN [error |-> "none",
             pool |-> [x_reserve |-> x_new, y_reserve |-> y_new,
                       K |-> Ctx(RatMul(x_new, y_new))]]

\* Deltas of liquidity: the amounts of a swap, zero and one negative amount.
TripDeltas == TripAmounts \cup {Dec(0), Dec(-1)}

\* pool.add_liquidity(dx, dy) on the fresh pool.
Trip_add_liquidity ==
    \E dx \in TripDeltas, dy \in TripDeltas :
        /\ call.n = 0
        /\ LET res == Decimal_add_liquidity(poolObj, dx, dy)
           IN /\ poolObj' = res.pool
              /\ call' = [method |-> "add_liquidity", amount |-> dx, amount_y |-> dy,
                          error |-> res.error,
                          before |-> poolObj, after |-> res.pool,
                          amount_out |-> Dec(0), n |-> 1]
        /\ UNCHANGED <<swapVars, lifeVars>>

\* pool.remove_liquidity(dx, dy) on the fresh pool.
Trip_remove_liquidity ==
    \E dx \in TripDeltas, dy \in TripDeltas :
        /\ call.n = 0
        /\ LET res == Decimal_remove_liquidity(poolObj, dx, dy)
           IN /\ poolObj' = res.pool
              /\ call' = [method |-> "remove_liquidity", amount |-> dx, amount_y |-> dy,
                          error |-> res.error,
                          before |-> poolObj, after |-> res.pool,
                          amount_out |-> Dec(0), n |-> 1]
        /\ UNCHANGED <<swapVars, lifeVars>>

NextLiquidity ==
    \/ Trip_add_liquidity
    \/ Trip_remove_liquidity

SpecLiquidity == InitRoundTrip /\ [][NextLiquidity]_vars

(***************************************************************************)
(* Experiment service (src/api/app): experiments, groups, rounds and the   *)
(* ExperimentRound pool instances.  Ids are handed out in creation order;  *)
(* a NULL timestamp is 0 and the clock starts at 1.                        *)
(***************************************************************************)
MaxGroups == 2
MaxPoolInstances == 2
MaxReserveInput == 1
MaxClock == 4

ExperimentIdInputs == {1}
RoundIdInputs == {1}

\* Reserve inputs: zero, whole units, and one positive amount finer than the
\* storable unit.
ReserveInputs == {Dec(n) : n \in 0..MaxReserveInput} \cup {Rat(1, SubUnit)}

NewId(table) == Cardinality(DOMAIN table) + 1

Busy == {s \in Sessions : sess[s].pc # "idle"}

\* ------------------------------ experiments ------------------------------

\* ExperimentCreate: num_groups gt=0.  The repository passes the creator to
\* the constructor as created_by_id, while the mapped column of Experiment is
\* admin_id (NOT NULL): the declarative constructor rejects the unknown
\* keyword with TypeError before anything is added to the session, and the
\* route has no handler for it (status 500, nothing created).  The base class
\* (models/base.py) is not in the source tree; the first branch is what the
\* handler does under a base class whose constructor stores the creator.
create_experiment(num_groups, created_by_id) ==
    /\ Cardinality(DOMAIN experiments) < Cardinality(ExperimentIdInputs)
    /\ IF num_groups <= 0
       THEN /\ resp' = [op |-> "create_experiment", status |-> "422"]
            /\ UNCHANGED <<experiments, groups>>
       ELSE IF created_by_id \notin AdminUsers \cap users
       THEN /\ resp' = [op |-> "create_experiment", status |-> "InvalidAdmin"]
            /\ UNCHANGED <<experiments, groups>>
       ELSE \/ LET eid == NewId(experiments)
                   base == Cardinality(DOMAIN groups)
               IN /\ experiments' = experiments @@
                          (eid :> [num_groups |-> num_groups, created_by_id |-> created_by_id,
                                   started_at |-> NULL, ended_at |-> NULL])
                  /\ groups' = groups @@
                          [g \in (base + 1)..(base + num_groups) |->
                              [experiment_id |-> eid, group_number |-> g - base]]
                  /\ resp' = [op |-> "create_experiment", status |-> "ok"]
            \/ /\ resp' = [op |-> "create_experiment", status |-> "500"]
               /\ UNCHANGED <<experiments, groups>>
    /\ UNCHANGED <<rounds, experiment_rounds, sess, clock, swapVars, engineVars, ledgerVars>>

\* PUT /experiments/{id} with num_groups set (ExperimentUpdate: gt=0).  Only
\* the column is written: no Group row is created or deleted.
update_experiment(eid, num_groups) ==
    /\ IF num_groups <= 0
       THEN /\ resp' = [op |-> "update_experiment", status |-> "422"]
            /\ UNCHANGED experiments
       ELSE IF eid \notin DOMAIN experiments
       THEN /\ resp' = [op |-> "update_experiment", status |-> "ExperimentNotFound"]
            /\ UNCHANGED experiments
       ELSE /\ experiments' = [experiments EXCEPT ![eid].num_groups = num_groups]
            /\ resp' = [op |-> "update_experiment", status |-> "ok"]
    /\ UNCHANGED <<groups, rounds, experiment_rounds, sess, clock, swapVars, engineVars,
                   ledgerVars>>

\* Mutant: the started_at check of line 118 is missing.
start_experiment_begin_unguarded(s, eid) ==
    /\ sess[s].pc = "idle"
    /\ IF eid \notin DOMAIN experiments
       THEN /\ resp' = [op |-> "start_experiment", status |-> "ExperimentNotFound"]
            /\ UNCHANGED sess
       ELSE /\ sess' = [sess EXCEPT ![s] = [IdleSess EXCEPT !.pc = "start_experiment", !.id = eid]]
            /\ UNCHANGED resp
    /\ UNCHANGED <<dbVars, clock, swapVars, engineVars, ledgerVars>>

start_experiment_begin(s, eid) ==
    /\ sess[s].pc = "idle"
    /\ IF eid \notin DOMAIN experiments
       THEN /\ resp' = [op |-> "start_experiment", status |-> "ExperimentNotFound"]
            /\ UNCHANGED sess
       ELSE IF experiments[eid].started_at # NULL
       THEN /\ resp' = [op |-> "start_experiment", status |-> "AlreadyStarted"]
            /\ UNCHANGED sess
       ELSE /\ sess' = [sess EXCEPT ![s] = [IdleSess EXCEPT !.pc = "start_experiment", !.id = eid]]
            /\ UNCHANGED resp
    /\ UNCHANGED <<dbVars, clock, swapVars, engineVars, ledgerVars>>

start_experiment_commit(s) ==
    /\ sess[s].pc = "start_experiment"
    /\ clock <= MaxClock
    /\ experiments' = [experiments EXCEPT ![sess[s].id].started_at = clock]
    /\ clock' = clock + 1
    /\ resp' = [op |-> "start_experiment", status |-> "ok"]
    /\ sess' = [sess EXCEPT ![s] = IdleSess]
    /\ UNCHANGED <<groups, rounds, experiment_rounds, swapVars, engineVars, ledgerVars>>

\* Mutant: the started_at check of line 133 is missing.
end_experiment_begin_unchecked(s, eid) ==
    /\ sess[s].pc = "idle"
    /\ IF eid \notin DOMAIN experiments
       THEN /\ resp' = [op |-> "end_experiment", status |-> "ExperimentNotFound"]
            /\ UNCHANGED sess
       ELSE IF experiments[eid].ended_at # NULL
       THEN /\ resp' = [op |-> "end_experiment", status |-> "AlreadyEnded"]
            /\ UNCHANGED sess
       ELSE /\ sess' = [sess EXCEPT ![s] = [IdleSess EXCEPT !.pc = "end_experiment", !.id = eid]]
            /\ UNCHANGED resp
    /\ UNCHANGED <<dbVars, clock, swapVars, engineVars, ledgerVars>>

end_experiment_begin(s, eid) ==
    /\ sess[s].pc = "idle"
    /\ IF eid \notin DOMAIN experiments
       THEN /\ resp' = [op |-> "end_experiment", status |-> "ExperimentNotFound"]
            /\ UNCHANGED sess
       ELSE IF experiments[eid].started_at = NULL
       THEN /\ resp' = [op |-> "end_experiment", status |-> "NotStarted"]
            /\ UNCHANGED sess
       ELSE IF experiments[eid].ended_at # NULL
       THEN /\ resp' = [op |-> "end_experiment", status |-> "AlreadyEnded"]
            /\ UNCHANGED sess
       ELSE /\ sess' = [sess EXCEPT ![s] = [IdleSess EXCEPT !.pc = "end_experiment", !.id = eid]]
            /\ UNCHANGED resp
    /\ UNCHANGED <<dbVars, clock, swapVars, engineVars, ledgerVars>>

\* Mutant: ending the experiment also ends its running rounds and closes
\* their pool instances.
end_experiment_commit_ends_rounds(s) ==
    /\ sess[s].pc = "end_experiment"
    /\ clock <= MaxClock
    /\ experiments' = [experiments EXCEPT ![sess[s].id].ended_at = clock]
    /\ rounds' = [r \in DOMAIN rounds |->
           IF rounds[r].experiment_id = sess[s].id /\ rounds[r].started_at # NULL
              /\ rounds[r].ended_at = NULL
           THEN [rounds[r] EXCEPT !.ended_at = clock] ELSE rounds[r]]
    /\ experiment_rounds' = [e \in DOMAIN experiment_rounds |->
           IF experiment_rounds[e].is_active
           THEN [experiment_rounds[e] EXCEPT !.is_active = FALSE, !.ended_at = clock]
           ELSE experiment_rounds[e]]
    /\ clock' = clock + 1
    /\ resp' = [op |-> "end_experiment", status |-> "ok"]
    /\ sess' = [sess EXCEPT ![s] = IdleSess]
    /\ UNCHANGED <<groups, swapVars, engineVars, ledgerVars>>

end_experiment_commit(s) ==
    /\ sess[s].pc = "end_experiment"
    /\ clock <= MaxClock
    /\ experiments' = [experiments EXCEPT ![sess[s].id].ended_at = clock]
    /\ clock' = clock + 1
    /\ resp' = [op |-> "end_experiment", status |-> "ok"]
    /\ sess' = [sess EXCEPT ![s] = IdleSess]
    /\ UNCHANGED <<groups, rounds, experiment_rounds, swapVars, engineVars, ledgerVars>>

\* -------------------------------- rounds ---------------------------------

\* RoundCreate: initial_reserve_x, initial_reserve_y gt=0; the values are
\* stored in NUMERIC(20, 8) columns.
create_round(experiment_id, initial_reserve_x, initial_reserve_y) ==
    /\ Cardinality(DOMAIN rounds) < Cardinality(RoundIdInputs)
    /\ IF ~(RatLt(Dec(0), initial_reserve_x) /\ RatLt(Dec(0), initial_reserve_y))
       THEN /\ resp' = [op |-> "create_round", status |-> "422"]
            /\ UNCHANGED rounds
       ELSE IF experiment_id \notin DOMAIN experiments
       THEN /\ resp' = [op |-> "create_round", status |-> "ExperimentNotFound"]
            /\ UNCHANGED rounds
       ELSE /\ rounds' = rounds @@
                  (NewId(rounds) :>
                      [experiment_id |-> experiment_id,
                       initial_reserve_x |-> Quantize(initial_reserve_x),
                       initial_reserve_y |-> Quantize(initial_reserve_y),
                       started_at |-> NULL, ended_at |-> NULL])
            /\ resp' = [op |-> "create_round", status |-> "ok"]
    /\ UNCHANGED <<experiments, groups, experiment_rounds, sess, clock, swapVars, engineVars, ledgerVars>>

\* PATCH /rounds/{id} with one field of RoundUpdate set (gt=0).
update_round(round_id, field, value) ==
    /\ IF ~RatLt(Dec(0), value)
       THEN /\ resp' = [op |-> "update_round", status |-> "422"]
            /\ UNCHANGED rounds
       ELSE IF round_id \notin DOMAIN rounds
       THEN /\ resp' = [op |-> "update_round", status |-> "RoundNotFound"]
            /\ UNCHANGED rounds
       ELSE /\ rounds' = [rounds EXCEPT ![round_id][field] = Quantize(value)]
            /\ resp' = [op |-> "update_round", status |-> "ok"]
    /\ UNCHANGED <<experiments, groups, experiment_rounds, sess, clock, swapVars, engineVars, ledgerVars>>

PoolInstancesOf(round_id) ==
    {e \in DOMAIN experiment_rounds : experiment_rounds[e].round_id = round_id}

\* Mutant: the two initial reserves are taken from each other's column.
initialize_experiment_rounds_begin_swapped(s, round_id) ==
    /\ sess[s].pc = "idle"
    /\ IF round_id \notin DOMAIN rounds
       THEN /\ resp' = [op |-> "initialize_round_pools", status |-> "RoundNotFound"]
            /\ UNCHANGED sess
       ELSE /\ sess' = [sess EXCEPT ![s] =
                  [IdleSess EXCEPT
                      !.pc = "initialize_round_pools", !.id = round_id,
                      !.x = rounds[round_id].initial_reserve_y,
                      !.y = rounds[round_id].initial_reserve_x,
                      !.group_ids = {g \in DOMAIN groups :
                          groups[g].experiment_id = rounds[round_id].experiment_id}]]
            /\ UNCHANGED resp
    /\ UNCHANGED <<dbVars, clock, swapVars, engineVars, ledgerVars>>

\* Mutant: the round is not looked up; a round that does not exist is
\* taken to have no initial reserves and every group.
initialize_experiment_rounds_begin_no_lookup(s, round_id) ==
    /\ sess[s].pc = "idle"
    /\ sess' = [sess EXCEPT ![s] =
           [IdleSess EXCEPT
               !.pc = "initialize_round_pools", !.id = round_id,
               !.x = IF round_id \in DOMAIN rounds
                     THEN rounds[round_id].initial_reserve_x ELSE 0,
               !.y = IF round_id \in DOMAIN rounds
                     THEN rounds[round_id].initial_reserve_y ELSE 0,
               !.group_ids = {g \in DOMAIN groups :
                   round_id \in DOMAIN rounds =>
                       groups[g].experiment_id = rounds[round_id].experiment_id}]]
    /\ UNCHANGED resp
    /\ UNCHANGED <<dbVars, clock, swapVars, engineVars, ledgerVars>>

\* initialize_experiment_rounds, lines 91-96: SELECT the round and the
\* groups of its experiment.
initialize_experiment_rounds_begin(s, round_id) ==
    /\ sess[s].pc = "idle"
    /\ IF round_id \notin DOMAIN rounds
       THEN /\ resp' = [op |-> "initialize_round_pools", status |-> "RoundNotFound"]
            /\ UNCHANGED sess
       ELSE /\ sess' = [sess EXCEPT ![s] =
                  [IdleSess EXCEPT
                      !.pc = "initialize_round_pools", !.id = round_id,
                      !.x = rounds[round_id].initial_reserve_x,
                      !.y = rounds[round_id].initial_reserve_y,
                      !.group_ids = {g \in DOMAIN groups :
                          groups[g].experiment_id = rounds[round_id].experiment_id}]]
            /\ UNCHANGED resp
    /\ UNCHANGED <<dbVars, clock, swapVars, engineVars, ledgerVars>>

RECURSIVE InsertPoolInstances(_, _, _)
\* One ExperimentRound per group read, with the reserves read.
InsertPoolInstances(table, gids, r) ==
    IF gids = {} THEN table
    ELSE LET g == CHOOSE x \in gids : \A z \in gids : x <= z
         IN InsertPoolInstances(
                table @@ (NewId(table) :>
                    [round_id |-> r.id, group_id |-> g,
                     reserve_x |-> r.x, reserve_y |-> r.y,
                     k_constant |-> r.x * r.y,
                     is_active |-> FALSE,
                     started_at |-> NULL, ended_at |-> NULL]),
                gids \ {g}, r)

\* initialize_experiment_rounds, lines 98-119: INSERT and commit.
initialize_experiment_rounds_commit(s) ==
    /\ sess[s].pc = "initialize_round_pools"
    /\ Cardinality(DOMAIN experiment_rounds) + Cardinality(sess[s].group_ids)
           <= MaxPoolInstances
    /\ IF sess[s].id \in DOMAIN rounds /\ sess[s].group_ids \subseteq DOMAIN groups
       THEN /\ experiment_rounds' =
                   InsertPoolInstances(experiment_rounds, sess[s].group_ids, sess[s])
            /\ resp' = [op |-> "initialize_round_pools", status |-> "ok"]
       ELSE \* round_id or group_id references a row deleted since the SELECT:
            \* the INSERT violates its foreign key and the route answers 500
            /\ UNCHANGED experiment_rounds
            /\ resp' = [op |-> "initialize_round_pools", status |-> "500"]
    /\ sess' = [sess EXCEPT ![s] = IdleSess]
    /\ UNCHANGED <<experiments, groups, rounds, clock, swapVars, engineVars, ledgerVars>>

\* Mutant: the started_at guard of line 128 is missing.
start_round_begin_unguarded(s, round_id) ==
    /\ sess[s].pc = "idle"
    /\ IF round_id \notin DOMAIN rounds
       THEN /\ resp' = [op |-> "start_round", status |-> "RoundNotFound"]
            /\ UNCHANGED sess
       ELSE /\ sess' = [sess EXCEPT ![s] =
                  [IdleSess EXCEPT
                      !.pc = "start_round", !.id = round_id,
                      !.seen = [e \in PoolInstancesOf(round_id) |->
                                   experiment_rounds[e].is_active]]]
            /\ UNCHANGED resp
    /\ UNCHANGED <<dbVars, clock, swapVars, engineVars, ledgerVars>>

\* start_round, lines 124-139: SELECT the round, check the guard, SELECT its
\* ExperimentRounds.
start_round_begin(s, round_id) ==
    /\ sess[s].pc = "idle"
    /\ IF round_id \notin DOMAIN rounds
       THEN /\ resp' = [op |-> "start_round", status |-> "RoundNotFound"]
            /\ UNCHANGED sess
       ELSE IF rounds[round_id].started_at # NULL
       THEN /\ resp' = [op |-> "start_round", status |-> "AlreadyStarted"]
            /\ UNCHANGED sess
       ELSE /\ sess' = [sess EXCEPT ![s] =
                  [IdleSess EXCEPT
                      !.pc = "start_round", !.id = round_id,
                      !.seen = [e \in PoolInstancesOf(round_id) |->
                                   experiment_rounds[e].is_active]]]
            /\ UNCHANGED resp
    /\ UNCHANGED <<dbVars, clock, swapVars, engineVars, ledgerVars>>

\* start_round, lines 132 and 142-153: the unit of work UPDATEs, by primary
\* key, the columns whose value differs from the one loaded.
start_round_commit(s) ==
    LET r == sess[s] IN
    /\ r.pc = "start_round"
    /\ clock <= MaxClock
    /\ rounds' = [rounds EXCEPT ![r.id].started_at = clock]
    /\ experiment_rounds' =
           [e \in DOMAIN experiment_rounds |->
               IF e \in DOMAIN r.seen
               THEN [experiment_rounds[e] EXCEPT
                        !.is_active = IF r.seen[e] = TRUE THEN @ ELSE TRUE,
                        !.started_at = clock]
               ELSE experiment_rounds[e]]
    /\ clock' = clock + 1
    /\ resp' = [op |-> "start_round", status |-> "ok"]
    /\ sess' = [sess EXCEPT ![s] = IdleSess]
    /\ UNCHANGED <<experiments, groups, swapVars, engineVars, ledgerVars>>

\* Mutant: the ended_at guard of line 166 is missing.
end_round_begin_unguarded(s, round_id) ==
    /\ sess[s].pc = "idle"
    /\ IF round_id \notin DOMAIN rounds
       THEN /\ resp' = [op |-> "end_round", status |-> "RoundNotFound"]
            /\ UNCHANGED sess
       ELSE IF rounds[round_id].started_at = NULL
       THEN /\ resp' = [op |-> "end_round", status |-> "NotStarted"]
            /\ UNCHANGED sess
       ELSE /\ sess' = [sess EXCEPT ![s] =
                  [IdleSess EXCEPT
                      !.pc = "end_round", !.id = round_id,
                      !.seen = [e \in PoolInstancesOf(round_id) |->
                                   experiment_rounds[e].is_active]]]
            /\ UNCHANGED resp
    /\ UNCHANGED <<dbVars, clock, swapVars, engineVars, ledgerVars>>

\* end_round, lines 159-177.
end_round_begin(s, round_id) ==
    /\ sess[s].pc = "idle"
    /\ IF round_id \notin DOMAIN rounds
       THEN /\ resp' = [op |-> "end_round", status |-> "RoundNotFound"]
            /\ UNCHANGED sess
       ELSE IF rounds[round_id].started_at = NULL
       THEN /\ resp' = [op |-> "end_round", status |-> "NotStarted"]
            /\ UNCHANGED sess
       ELSE IF rounds[round_id].ended_at # NULL
       THEN /\ resp' = [op |-> "end_round", status |-> "AlreadyEnded"]
            /\ UNCHANGED sess
       ELSE /\ sess' = [sess EXCEPT ![s] =
                  [IdleSess EXCEPT
                      !.pc = "end_round", !.id = round_id,
                      !.seen = [e \in PoolInstancesOf(round_id) |->
                                   experiment_rounds[e].is_active]]]
            /\ UNCHANGED resp
    /\ UNCHANGED <<dbVars, clock, swapVars, engineVars, ledgerVars>>

\* end_round, lines 170 and 180-186.
end_round_commit(s) ==
    LET r == sess[s] IN
    /\ r.pc = "end_round"
    /\ clock <= MaxClock
    /\ rounds' = [rounds EXCEPT ![r.id].ended_at = clock]
    /\ experiment_rounds' =
           [e \in DOMAIN experiment_rounds |->
               IF e \in DOMAIN r.seen
               THEN [experiment_rounds[e] EXCEPT
                        !.is_active = IF r.seen[e] = FALSE THEN @ ELSE FALSE,
                        !.ended_at = clock]
               ELSE experiment_rounds[e]]
    /\ clock' = clock + 1
    /\ resp' = [op |-> "end_round", status |-> "ok"]
    /\ sess' = [sess EXCEPT ![s] = IdleSess]
    /\ UNCHANGED <<experiments, groups, swapVars, engineVars, ledgerVars>>

\* --------------------------- ledger and deletion ---------------------------

MaxLedgerRows == 2

PlayerUsers == Users \ AdminUsers

\* Transaction.id: default=uuid4, an id no committed row has.
NewTransactionId ==
    CHOOSE t \in 1..MaxLedgerRows :
        /\ t \notin DOMAIN round_transactions
        /\ \A u \in 1..(t - 1) : u \in DOMAIN round_transactions

\* record_swap (spec section 4.4): appends one Transaction of a player for a
\* pool instance.  The experiment service under src/api has no handler that
\* inserts into "transactions"; the row's foreign keys are those of the
\* Transaction model.
record_swap(experiment_round_id, player_id, dir) ==
    /\ Cardinality(DOMAIN round_transactions) < MaxLedgerRows
    /\ IF experiment_round_id \notin DOMAIN experiment_rounds
          \/ player_id \notin PlayerUsers \cap users
       THEN /\ resp' = [op |-> "record_swap", status |-> "NotFound"]
            /\ UNCHANGED round_transactions
       ELSE /\ round_transactions' = round_transactions @@
                  (NewTransactionId :>
                      [experiment_round_id |-> experiment_round_id,
                       player_id |-> player_id,
                       currency_in_id |-> CurrencyIn(dir),
                       currency_out_id |-> CurrencyOut(dir),
                       has_completed |-> TRUE])
            /\ resp' = [op |-> "record_swap", status |-> "ok"]
    /\ UNCHANGED <<dbVars, users, player_balances, player_currency_knowledge, player_group,
                   sess, clock,
                   swapVars, engineVars>>

MaxPlayerRows == 1

\* id: default=uuid4, an id no committed row of the table has.
NewRowId(table) ==
    CHOOSE t \in 1..(Cardinality(DOMAIN table) + 1) :
        /\ t \notin DOMAIN table
        /\ \A u \in 1..(t - 1) : u \in DOMAIN table

\* PlayerBalance (spec sections 3 and 9): one row per player, pool instance
\* and currency, starting at zero.  src/api declares the table and inserts
\* no row (TODO in start_round).
create_player_balance(experiment_round_id, player_id, currency_id) ==
    /\ Cardinality(DOMAIN player_balances) < MaxPlayerRows
    /\ IF experiment_round_id \notin DOMAIN experiment_rounds
          \/ player_id \notin PlayerUsers \cap users
       THEN /\ resp' = [op |-> "create_player_balance", status |-> "NotFound"]
            /\ UNCHANGED player_balances
       ELSE /\ player_balances' = player_balances @@
                  (NewRowId(player_balances) :>
                      [experiment_round_id |-> experiment_round_id,
                       player_id |-> player_id, currency_id |-> currency_id,
                       balance |-> 0])
            /\ resp' = [op |-> "create_player_balance", status |-> "ok"]
    /\ UNCHANGED <<dbVars, users, round_transactions, player_currency_knowledge,
                   player_group, sess, clock,
                   swapVars, engineVars>>

\* PlayerCurrencyKnowledge (spec section 4.5): the currency whose reference
\* price a player may see in a pool instance, recorded once per player and
\* pool instance.  src/api declares the table and inserts no row.
assign_currency_knowledge(experiment_round_id, player_id, revealed_currency_id) ==
    /\ Cardinality(DOMAIN player_currency_knowledge) < MaxPlayerRows
    /\ IF experiment_round_id \notin DOMAIN experiment_rounds
          \/ player_id \notin PlayerUsers \cap users
       THEN /\ resp' = [op |-> "assign_currency_knowledge", status |-> "NotFound"]
            /\ UNCHANGED player_currency_knowledge
       ELSE /\ player_currency_knowledge' = player_currency_knowledge @@
                  (NewRowId(player_currency_knowledge) :>
                      [experiment_round_id |-> experiment_round_id,
                       player_id |-> player_id,
                       revealed_currency_id |-> revealed_currency_id])
            /\ resp' = [op |-> "assign_currency_knowledge", status |-> "ok"]
    /\ UNCHANGED <<dbVars, users, round_transactions, player_balances, player_group,
                   sess, clock,
                   swapVars, engineVars>>

Without(table, gone) == [i \in DOMAIN table \ gone |-> table[i]]

\* The rows that db.delete(obj) marks for deletion: obj and, along every
\* relationship declared cascade="all, delete-orphan", the rows that belong
\* to it: Experiment -> Round, Group -> ExperimentRound -> Transaction,
\* PlayerBalance, PlayerCurrencyKnowledge; PlayerUser -> Transaction,
\* PlayerBalance, PlayerCurrencyKnowledge; AdminUser -> Experiment.  es, rs
\* and us are the experiments, rounds and users the cascade starts from.
\* Group.players declares no cascade: the players of a deleted group are
\* loaded and their group_id is set to NULL.
Cascade(es, rs, us) ==
    LET Es == es \cup {e \in DOMAIN experiments :
                          experiments[e].created_by_id \in us}
        Rs == rs \cup {r \in DOMAIN rounds : rounds[r].experiment_id \in Es}
        Gs == {g \in DOMAIN groups : groups[g].experiment_id \in Es}
        Ps == {e \in DOMAIN experiment_rounds :
                  \/ experiment_rounds[e].round_id \in Rs
                  \/ experiment_rounds[e].group_id \in Gs}
        OwnedBy(table) ==
            {t \in DOMAIN table : \/ table[t].experiment_round_id \in Ps
                                  \/ table[t].player_id \in us}
    IN [users |-> us, experiments |-> Es, rounds |-> Rs, groups |-> Gs,
        experiment_rounds |-> Ps,
        players |-> {p \in DOMAIN player_group : player_group[p] \in Gs},
        transactions |-> OwnedBy(round_transactions),
        player_balances |-> OwnedBy(player_balances),
        player_currency_knowledge |-> OwnedBy(player_currency_knowledge)]

\* db.commit() after db.delete(obj): one database transaction deletes the
\* marked rows.
delete_cascade(es, rs, us) ==
    LET c == Cascade(es, rs, us)
    IN /\ users' = users \ c.users
       /\ experiments' = Without(experiments, c.experiments)
       /\ rounds' = Without(rounds, c.rounds)
       /\ groups' = Without(groups, c.groups)
       /\ experiment_rounds' = Without(experiment_rounds, c.experiment_rounds)
       /\ round_transactions' = Without(round_transactions, c.transactions)
       /\ player_balances' = Without(player_balances, c.player_balances)
       /\ player_currency_knowledge' =
              Without(player_currency_knowledge, c.player_currency_knowledge)
       /\ player_group' = [p \in DOMAIN player_group |->
                              IF p \in c.players \cup c.users THEN NULL
                              ELSE player_group[p]]

delete_round_keeps_transactions(round_id) ==
    /\ IF round_id \notin DOMAIN rounds
       THEN /\ resp' = [op |-> "delete_round", status |-> "RoundNotFound"]
            /\ UNCHANGED <<dbVars, ledgerVars>>
       ELSE /\ rounds' = Without(rounds, {round_id})
            /\ experiment_rounds' = Without(experiment_rounds, PoolInstancesOf(round_id))
            /\ UNCHANGED <<experiments, groups, ledgerVars>>
            /\ resp' = [op |-> "delete_round", status |-> "ok"]
    /\ UNCHANGED <<sess, clock, swapVars, engineVars>>

\* DELETE /rounds/{round_id}.
delete_round(round_id) ==
    /\ IF round_id \notin DOMAIN rounds
       THEN /\ resp' = [op |-> "delete_round", status |-> "RoundNotFound"]
            /\ UNCHANGED <<dbVars, ledgerVars>>
       ELSE /\ delete_cascade({}, {round_id}, {})
            /\ resp' = [op |-> "delete_round", status |-> "ok"]
    /\ UNCHANGED <<sess, clock, swapVars, engineVars>>

\* Mutant: the experiment row and its rounds and groups are deleted, the
\* pool instances and what they own are left behind.
delete_experiment_commit_shallow(s) ==
    /\ sess[s].pc = "delete_experiment"
    /\ experiments' = Without(experiments, {sess[s].id})
    /\ rounds' = Without(rounds, Cascade({sess[s].id}, {}, {}).rounds)
    /\ groups' = Without(groups, Cascade({sess[s].id}, {}, {}).groups)
    /\ resp' = [op |-> "delete_experiment", status |-> "ok"]
    /\ sess' = [sess EXCEPT ![s] = IdleSess]
    /\ UNCHANGED <<experiment_rounds, ledgerVars, clock, swapVars, engineVars>>

\* DELETE /experiments/{experiment_id}: get_experiment_by_id, then
\* db.delete(experiment) loads the rows of the cascade.
delete_experiment_begin(s, experiment_id) ==
    /\ sess[s].pc = "idle"
    /\ IF experiment_id \notin DOMAIN experiments
       THEN /\ resp' = [op |-> "delete_experiment", status |-> "ExperimentNotFound"]
            /\ UNCHANGED sess
       ELSE /\ sess' = [sess EXCEPT ![s] =
                  [IdleSess EXCEPT !.pc = "delete_experiment", !.id = experiment_id,
                                   !.seen = Cascade({experiment_id}, {}, {})]]
            /\ UNCHANGED resp
    /\ UNCHANGED <<dbVars, clock, swapVars, engineVars, ledgerVars>>

\* db.commit(): the DELETEs of the loaded rows run in one transaction.  A
\* row committed since the load that references a row being deleted makes
\* a DELETE violate its foreign key (no ON DELETE clause is declared): the
\* transaction is rolled back and the route answers 500.  A loaded row that
\* is already gone only raises a warning.
delete_experiment_commit(s) ==
    /\ sess[s].pc = "delete_experiment"
    /\ LET now == Cascade({sess[s].id}, {}, {})
       IN IF \A table \in DOMAIN now : now[table] \subseteq sess[s].seen[table]
          THEN /\ delete_cascade({sess[s].id}, {}, {})
               /\ resp' = [op |-> "delete_experiment", status |-> "ok"]
          ELSE /\ UNCHANGED <<dbVars, ledgerVars>>
               /\ resp' = [op |-> "delete_experiment", status |-> "500"]
    /\ sess' = [sess EXCEPT ![s] = IdleSess]
    /\ UNCHANGED <<clock, swapVars, engineVars>>

\* POST /users/players/assign-group: update_player_group sets the column;
\* a group_id that names no group fails the foreign key at commit, which the
\* route answers with 500.
update_player_group(player_id, group_id) ==
    /\ IF player_id \notin DOMAIN player_group \cap users
       THEN /\ resp' = [op |-> "update_player_group", status |-> "UserNotFound"]
            /\ UNCHANGED player_group
       ELSE IF group_id \notin DOMAIN groups
       THEN /\ resp' = [op |-> "update_player_group", status |-> "500"]
            /\ UNCHANGED player_group
       ELSE /\ player_group' = [player_group EXCEPT ![player_id] = group_id]
            /\ resp' = [op |-> "update_player_group", status |-> "ok"]
    /\ UNCHANGED <<dbVars, users, round_transactions, player_balances,
                   player_currency_knowledge, sess, clock, swapVars, engineVars>>

\* users/repository.py delete_user: no route calls it.
delete_user(user_id) ==
    /\ IF user_id \notin users
       THEN /\ resp' = [op |-> "delete_user", status |-> "UserNotFound"]
            /\ UNCHANGED <<dbVars, ledgerVars>>
       ELSE /\ delete_cascade({}, {}, {user_id})
            /\ resp' = [op |-> "delete_user", status |-> "ok"]
    /\ UNCHANGED <<sess, clock, swapVars, engineVars>>


(***************************************************************************)
(* Experiment service: specifications.  The database starts empty.  Spec   *)
(* interleaves the round requests of the sessions; SpecSeq answers one     *)
(* request completely before the next one is taken.  The experiment        *)
(* start/end handlers read and write only the experiments table, which no  *)
(* round handler writes, and are run by SpecExperiment.                    *)
(***************************************************************************)
Init ==
    /\ LifeOff
    /\ SwapOff
    /\ EngineOff

CreateExperiment ==
    \E n \in 0..MaxGroups, u \in Users : create_experiment(n, u)

StartExperimentBegin ==
    \E s \in Sessions, eid \in ExperimentIdInputs : start_experiment_begin(s, eid)

StartExperimentCommit == \E s \in Sessions : start_experiment_commit(s)

EndExperimentBegin ==
    \E s \in Sessions, eid \in ExperimentIdInputs : end_experiment_begin(s, eid)

EndExperimentCommit == \E s \in Sessions : end_experiment_commit(s)

UpdateExperiment ==
    \E eid \in ExperimentIdInputs, n \in 0..MaxGroups : update_experiment(eid, n)

CreateRound ==
    \E eid \in ExperimentIdInputs, x \in ReserveInputs, y \in ReserveInputs :
        create_round(eid, x, y)

UpdateRound ==
    \E rid \in RoundIdInputs, f \in {"initial_reserve_x", "initial_reserve_y"},
       v \in ReserveInputs : update_round(rid, f, v)

InitializeBegin ==
    \E s \in Sessions, rid \in RoundIdInputs : initialize_experiment_rounds_begin(s, rid)

InitializeCommit == \E s \in Sessions : initialize_experiment_rounds_commit(s)

StartRoundBegin ==
    \E s \in Sessions, rid \in RoundIdInputs : start_round_begin(s, rid)

StartRoundCommit == \E s \in Sessions : start_round_commit(s)

EndRoundBegin ==
    \E s \in Sessions, rid \in RoundIdInputs : end_round_begin(s, rid)

EndRoundCommit == \E s \in Sessions : end_round_commit(s)

Next ==
    \/ CreateExperiment
    \/ CreateRound
    \/ UpdateRound
    \/ InitializeBegin
    \/ InitializeCommit
    \/ StartRoundBegin
    \/ StartRoundCommit
    \/ EndRoundBegin
    \/ EndRoundCommit

Spec == Init /\ [][Next]_vars

\* No step is taken by a second request while one is being answered; the
\* requests all arrive on the first session.
OneAtATime ==
    /\ Busy = {} \/ Busy' = {}
    /\ Busy' \subseteq {CHOOSE s \in Sessions : \A t \in Sessions : s <= t}

NextSeq ==
    \/ CreateExperiment /\ OneAtATime
    \/ CreateRound /\ OneAtATime
    \/ UpdateRound /\ OneAtATime
    \/ InitializeBegin /\ OneAtATime
    \/ InitializeCommit /\ OneAtATime
    \/ StartRoundBegin /\ OneAtATime
    \/ StartRoundCommit /\ OneAtATime
    \/ EndRoundBegin /\ OneAtATime
    \/ EndRoundCommit /\ OneAtATime

SpecSeq == Init /\ [][NextSeq]_vars

NextExperiment ==
    \/ CreateExperiment
    \/ StartExperimentBegin
    \/ StartExperimentCommit
    \/ EndExperimentBegin
    \/ EndExperimentCommit

SpecExperiment == Init /\ [][NextExperiment]_vars

\* The ledger and the deleting handlers, one request at a time.
RecordSwap ==
    \E e \in 1..MaxPoolInstances, p \in Users, d \in Directions : record_swap(e, p, d)

DeleteRound == \E rid \in RoundIdInputs : delete_round(rid)

DeleteExperimentBegin ==
    \E s \in Sessions, eid \in ExperimentIdInputs : delete_experiment_begin(s, eid)

DeleteExperimentCommit == \E s \in Sessions : delete_experiment_commit(s)

DeleteUser == \E u \in Users : delete_user(u)

NextLedger ==
    \/ CreateExperiment /\ OneAtATime
    \/ CreateRound /\ OneAtATime
    \/ InitializeBegin /\ OneAtATime
    \/ InitializeCommit /\ OneAtATime
    \/ RecordSwap /\ OneAtATime
    \/ DeleteRound /\ OneAtATime
    \/ DeleteExperimentBegin /\ OneAtATime
    \/ DeleteExperimentCommit /\ OneAtATime
    \/ DeleteUser /\ OneAtATime

SpecLedger == Init /\ [][NextLedger]_vars

\* Deletion of an experiment while other requests are being answered.  The
\* requests that fill the tables are the accepted ones, for one player and
\* one currency.  An id is never used twice (uuid4): the ids of the model
\* start again after a deletion, so an experiment is created only when no
\* request in flight still holds the ids of a deleted one.
CascadePlayer == CHOOSE p \in PlayerUsers : TRUE

\* The rows a player leaves behind are recorded for the first pool instance:
\* every pool instance belongs to the one experiment that is deleted.
CascadePoolInstance == CHOOSE e \in 1..MaxPoolInstances : \A f \in 1..MaxPoolInstances : e <= f

CascadeCreateExperiment ==
    /\ Busy = {}
    /\ \E n \in 1..MaxGroups, u \in AdminUsers : create_experiment(n, u)

CascadeCreateRound ==
    \E eid \in ExperimentIdInputs : create_round(eid, Dec(1), Dec(1))

CascadeRecordSwap == record_swap(CascadePoolInstance, CascadePlayer, "x_for_y")

CreatePlayerBalance == create_player_balance(CascadePoolInstance, CascadePlayer, "X")

AssignCurrencyKnowledge ==
    assign_currency_knowledge(CascadePoolInstance, CascadePlayer, "X")

NextCascade ==
    \/ CascadeCreateExperiment
    \/ CascadeCreateRound
    \/ InitializeBegin
    \/ InitializeCommit
    \/ CascadeRecordSwap
    \/ CreatePlayerBalance
    \/ AssignCurrencyKnowledge
    \/ DeleteExperimentBegin
    \/ DeleteExperimentCommit

SpecCascade == Init /\ [][NextCascade]_vars

\* Ids sent with a request: the id of the one experiment or round there
\* can be, and an id that no row ever has.
LookupIds == {1, 2}

LookupInitializeBegin ==
    \E s \in Sessions, rid \in LookupIds : initialize_experiment_rounds_begin(s, rid)

LookupStartRoundBegin == \E s \in Sessions, rid \in LookupIds : start_round_begin(s, rid)

LookupEndRoundBegin == \E s \in Sessions, rid \in LookupIds : end_round_begin(s, rid)

LookupStartExperimentBegin ==
    \E s \in Sessions, eid \in LookupIds : start_experiment_begin(s, eid)

LookupEndExperimentBegin ==
    \E s \in Sessions, eid \in LookupIds : end_experiment_begin(s, eid)

LookupDeleteExperimentBegin ==
    \E s \in Sessions, eid \in LookupIds : delete_experiment_begin(s, eid)

\* The handlers that look a round or an experiment up by id, one request at
\* a time.
NextLookup ==
    \/ CascadeCreateExperiment
    \/ CascadeCreateRound /\ OneAtATime
    \/ LookupInitializeBegin /\ OneAtATime
    \/ InitializeCommit
    \/ LookupStartRoundBegin /\ OneAtATime
    \/ StartRoundCommit
    \/ LookupEndRoundBegin /\ OneAtATime
    \/ EndRoundCommit
    \/ LookupStartExperimentBegin /\ OneAtATime
    \/ StartExperimentCommit
    \/ LookupEndExperimentBegin /\ OneAtATime
    \/ EndExperimentCommit
    \/ LookupDeleteExperimentBegin /\ OneAtATime
    \/ DeleteExperimentCommit

SpecLookup == Init /\ [][NextLookup]_vars

UpdatePlayerGroup ==
    \E p \in Users, g \in 1..MaxGroups : update_player_group(p, g)

\* Players are assigned to the groups of an experiment whose round is
\* initialized, started and ended; one request at a time.
NextKnowledge ==
    \/ CascadeCreateExperiment
    \/ UpdatePlayerGroup /\ OneAtATime
    \/ CascadeCreateRound /\ OneAtATime
    \/ InitializeBegin /\ OneAtATime
    \/ InitializeCommit
    \/ StartRoundBegin /\ OneAtATime
    \/ StartRoundCommit
    \/ EndRoundBegin /\ OneAtATime
    \/ EndRoundCommit

SpecKnowledge == Init /\ [][NextKnowledge]_vars

\* The experiment and round lifecycles together, requests interleaved: one
\* experiment with one round, started and ended.
NextLifecycle ==
    \/ CascadeCreateExperiment
    \/ UpdateExperiment
    \/ CascadeCreateRound
    \/ StartExperimentBegin
    \/ StartExperimentCommit
    \/ EndExperimentBegin
    \/ EndExperimentCommit
    \/ StartRoundBegin
    \/ StartRoundCommit
    \/ EndRoundBegin
    \/ EndRoundCommit

SpecLifecycle == Init /\ [][NextLifecycle]_vars

\* The experiment and round lifecycles, one request at a time.
NextLifecycleSeq ==
    \/ CreateExperiment /\ OneAtATime
    \/ UpdateExperiment /\ OneAtATime
    \/ StartExperimentBegin /\ OneAtATime
    \/ StartExperimentCommit /\ OneAtATime
    \/ EndExperimentBegin /\ OneAtATime
    \/ EndExperimentCommit /\ OneAtATime
    \/ CascadeCreateRound /\ OneAtATime
    \/ StartRoundBegin /\ OneAtATime
    \/ StartRoundCommit /\ OneAtATime
    \/ EndRoundBegin /\ OneAtATime
    \/ EndRoundCommit /\ OneAtATime

SpecLifecycleSeq == Init /\ [][NextLifecycleSeq]_vars

(***************************************************************************)
(* Claims about the pool service and the invariant engine.                 *)
(***************************************************************************)
\* One swap executed alone: load the row, swap, commit.
SerialSwap(row, c) ==
    LET res == Pool_swap(c.dir, PoolObject(row), c.amount_in)
    IN [row EXCEPT !.x_reserve = Quantize(res.pool.x_reserve),
                   !.y_reserve = Quantize(res.pool.y_reserve)]

RECURSIVE Replay(_, _, _)
\* The row after the committed swaps order[1], order[2], ... run one by one.
Replay(row, order, i) ==
    IF i > Len(order) THEN row
    ELSE Replay(SerialSwap(row, committed[order[i]]), order, i + 1)

CommittedOn(pid) == {i \in 1..Len(committed) : committed[i].pool_id = pid}

Orders(S) ==
    {o \in [1..Cardinality(S) -> S] : \A i, j \in 1..Cardinality(S) : i # j => o[i] # o[j]}

\* C1: the committed reserves of every pool are those of running its
\* committed swaps one after the other in some order, and no two committed
\* swaps of a pool were computed from the same read of its reserves.
C1_SwapsSerializable ==
    \A pid \in DOMAIN pools :
        /\ \E o \in Orders(CommittedOn(pid)) :
               LET row == Replay(seeded[pid], o, 1)
               IN /\ row.x_reserve = pools[pid].x_reserve
                  /\ row.y_reserve = pools[pid].y_reserve
        /\ \A i, j \in CommittedOn(pid) : i # j => committed[i].seen # committed[j].seen

Consistent(obj) ==
    /\ RatLt(Dec(0), obj.x_reserve)
    /\ RatLt(Dec(0), obj.y_reserve)
    /\ RatEq(RatMul(obj.x_reserve, obj.y_reserve), obj.K)

C4_ActivePoolsWellFormed ==
    \A e \in DOMAIN experiment_rounds :
        experiment_rounds[e].is_active =>
            /\ experiment_rounds[e].reserve_x > 0
            /\ experiment_rounds[e].reserve_y > 0
            /\ experiment_rounds[e].reserve_x * experiment_rounds[e].reserve_y
                   = experiment_rounds[e].k_constant

StartRoundReturns(s) == sess[s].pc = "start_round" /\ sess'[s].pc = "idle"

EndRoundReturns(s) == sess[s].pc = "end_round" /\ sess'[s].pc = "idle"

Rejected(op, status) ==
    /\ resp' # resp
    /\ resp' = [op |-> op, status |-> status]

\* C5: with requests answered one at a time, start_round on a round whose
\* started_at is set is rejected with AlreadyStarted and changes neither the
\* round nor its ExperimentRounds; a call gets past the guard only when
\* started_at is unset, and then it stamps started_at and leaves every
\* ExperimentRound of the round active and stamped.
C5_StartRoundOnce ==
    [][\A s \in Sessions :
          /\ Rejected("start_round", "AlreadyStarted") => UNCHANGED dbVars
          /\ (sess[s].pc = "idle" /\ sess'[s].pc = "start_round")
                 => rounds[sess'[s].id].started_at = NULL
          /\ StartRoundReturns(s) =>
                 LET r == sess[s].id IN
                 /\ rounds[r].started_at = NULL
                 /\ rounds'[r].started_at # NULL
                 /\ rounds'[r] = [rounds[r] EXCEPT !.started_at = rounds'[r].started_at]
                 /\ resp' = [op |-> "start_round", status |-> "ok"]
                 /\ \A e \in DOMAIN experiment_rounds' :
                       experiment_rounds'[e].round_id = r =>
                           /\ experiment_rounds'[e].is_active
                           /\ experiment_rounds'[e].started_at # NULL
      ]_vars

\* A second start_round has been rejected on a round whose pools the first
\* one activated.
C5_Witness ==
    /\ resp = [op |-> "start_round", status |-> "AlreadyStarted"]
    /\ \E e \in DOMAIN experiment_rounds :
          /\ experiment_rounds[e].is_active
          /\ rounds[experiment_rounds[e].round_id].started_at # NULL

\* C6: with requests answered one at a time, end_round is rejected with
\* NotStarted or AlreadyEnded without changing the round or its
\* ExperimentRounds; a call gets past the guards only for a started round
\* that has not ended, and then it stamps ended_at and leaves every
\* ExperimentRound of the round inactive and stamped.
C6_EndRoundOnce ==
    [][\A s \in Sessions :
          /\ (Rejected("end_round", "NotStarted") \/ Rejected("end_round", "AlreadyEnded"))
                 => UNCHANGED dbVars
          /\ (sess[s].pc = "idle" /\ sess'[s].pc = "end_round")
                 => /\ rounds[sess'[s].id].started_at # NULL
                    /\ rounds[sess'[s].id].ended_at = NULL
          /\ EndRoundReturns(s) =>
                 LET r == sess[s].id IN
                 /\ rounds[r].started_at # NULL
                 /\ rounds[r].ended_at = NULL
                 /\ rounds'[r].ended_at # NULL
                 /\ rounds'[r] = [rounds[r] EXCEPT !.ended_at = rounds'[r].ended_at]
                 /\ resp' = [op |-> "end_round", status |-> "ok"]
                 /\ \A e \in DOMAIN experiment_rounds' :
                       experiment_rounds'[e].round_id = r =>
                           /\ ~experiment_rounds'[e].is_active
                           /\ experiment_rounds'[e].ended_at # NULL
      ]_vars

\* A second end_round has been rejected on a round whose pools the first one
\* deactivated.
C6_Witness ==
    /\ resp = [op |-> "end_round", status |-> "AlreadyEnded"]
    /\ \E e \in DOMAIN experiment_rounds :
          /\ ~experiment_rounds[e].is_active
          /\ experiment_rounds[e].ended_at # NULL
          /\ rounds[experiment_rounds[e].round_id].ended_at # NULL

SetOnce(table, field) ==
    \A id \in DOMAIN table :
        table[id][field] # NULL =>
            /\ id \in DOMAIN table'
            /\ table'[id][field] = table[id][field]

\* C7: once started_at (ended_at) of an Experiment or a Round is set, no
\* step changes it; in particular a second start or end call never gets to
\* stamp the entity again.
C7_TimestampsSetOnce ==
    [][/\ SetOnce(rounds, "started_at")
       /\ SetOnce(rounds, "ended_at")
       /\ SetOnce(experiments, "started_at")
       /\ SetOnce(experiments, "ended_at")]_vars

\* C8: an ExperimentRound that its round's end has deactivated is inactive
\* in every later state.
C8_NeverReactivated ==
    [][\A e \in DOMAIN experiment_rounds :
          (experiment_rounds[e].ended_at # NULL /\ ~experiment_rounds[e].is_active)
              => ~experiment_rounds'[e].is_active]_vars

\* C9: in no committed state does a round have both an active and an
\* inactive ExperimentRound.
C9_AllOrNothing ==
    \A e1, e2 \in DOMAIN experiment_rounds :
        experiment_rounds[e1].round_id = experiment_rounds[e2].round_id
            => experiment_rounds[e1].is_active = experiment_rounds[e2].is_active

\* C10: there is at most one ExperimentRound for each (round_id, group_id).
C10_OnePoolPerRoundAndGroup ==
    \A e1, e2 \in DOMAIN experiment_rounds :
        (/\ experiment_rounds[e1].round_id = experiment_rounds[e2].round_id
         /\ experiment_rounds[e1].group_id = experiment_rounds[e2].group_id)
            => e1 = e2

(***************************************************************************)
(* Claims about pool initialization and the order of the round lifecycle.  *)
(***************************************************************************)

\* C11: initialize_round_pools on a round that already has ExperimentRounds
\* is rejected: no step adds an ExperimentRound to such a round or removes
\* one from it.
C11_ReinitializationRejected ==
    [][\A r \in DOMAIN rounds :
          PoolInstancesOf(r) # {} =>
              {e \in DOMAIN experiment_rounds' : experiment_rounds'[e].round_id = r}
                  = PoolInstancesOf(r)]_vars

InitializeReturns(s) == sess[s].pc = "initialize_round_pools" /\ sess'[s].pc = "idle"

GroupsOf(experiment_id) ==
    {g \in DOMAIN groups : groups[g].experiment_id = experiment_id}

C13_LifecycleOrder ==
    [][\A r \in DOMAIN rounds :
          /\ (rounds[r].started_at = NULL /\ rounds'[r].started_at # NULL)
                 => PoolInstancesOf(r) # {}
          /\ rounds[r].started_at # NULL
                 => {e \in DOMAIN experiment_rounds' : experiment_rounds'[e].round_id = r}
                        \subseteq PoolInstancesOf(r)]_vars

(***************************************************************************)
(* Claims about rejected swaps, the invariant constant and the ledger of   *)
(* the pool service.                                                       *)
(***************************************************************************)

\* C14: a swap whose computed output is below the request's min_amount_out
\* never gets to the commit, and the step that answers it with the slippage
\* error changes neither a stored pool row nor the ledger.
C14_SlippageRejectedWithoutEffect ==
    [][/\ (swapResp' = "slippage" /\ swapResp # "slippage")
              => (pools' = pools /\ transactions' = transactions)
       /\ \A s \in SwapSessions :
              swapSess'[s].pc = "swapped"
                  => ~RatLt(swapSess'[s].amount_out, swapSess'[s].min_amount_out)
      ]_vars

\* A request has been rejected for slippage on a pool that an earlier swap
\* has changed.
C14_Witness ==
    /\ swapResp = "slippage"
    /\ \E pid \in DOMAIN pools : pools[pid] # seeded[pid]

\* C15: a swap called with an amount that is zero or negative raises
\* (ValueError) and leaves x_reserve, y_reserve and K of the pool as they
\* were.
C15_InvalidAmountRejected ==
    (call.method \in SwapMethods /\ RatLe(call.amount, Dec(0))) =>
        /\ call.error = "ValueError"
        /\ call.after = call.before
        /\ RatEq(call.amount_out, Dec(0))

\* swap_y_for_x has been called with a negative amount on a pool that an
\* earlier call has changed.
C15_Witness ==
    /\ call.method = "swap_y_for_x"
    /\ call.n = 2
    /\ RatLt(call.amount, Dec(0))
    /\ call.error = "ValueError"
    /\ ~RatEq(call.before.x_reserve, Dec(Quantize(call.before.x_reserve)))

\* C16: no swap leaves a pool with a reserve that is zero or negative: a
\* pool seeded with positive reserves has positive stored reserves after any
\* sequence of swaps.
C16_ReservesStayPositive ==
    \A pid \in DOMAIN pools :
        /\ pools[pid].x_reserve > 0
        /\ pools[pid].y_reserve > 0

\* C17: a call of swap_x_for_y or swap_y_for_x leaves K of the pool as it
\* was; K changes only in a call of add_liquidity or remove_liquidity, or
\* when a K such a call computed is rounded to its column on being stored.
C17_OnlyLiquidityChangesK ==
    [][/\ (call'.n = call.n + 1 /\ call'.method \in SwapMethods)
              => poolObj'.K = poolObj.K
       /\ ~RatEq(poolObj'.K, poolObj.K)
              => \/ call'.n = call.n + 1 /\ call'.method \in LiquidityMethods
                 \/ call' = call /\ poolObj'.K = Dec(Quantize(poolObj.K))
      ]_vars

\* A second call, a swap, has moved the reserves of a pool whose reserves
\* no longer multiply to K, and has kept K.
C17_Witness ==
    /\ call.method = "swap_y_for_x"
    /\ call.n = 2
    /\ call.error = "none"
    /\ call.after.K = call.before.K
    /\ ~RatEq(call.after.y_reserve, call.before.y_reserve)
    /\ ~RatEq(RatMul(call.before.x_reserve, call.before.y_reserve), call.before.K)

SwapCommitted(s) ==
    /\ swapSess[s].pc = "swapped"
    /\ swapSess'[s].pc = "idle"
    /\ swapResp' = "ok"

\* C18: the reserves of a swap and its Transaction row are committed
\* together or not at all: every step that changes a stored pool row or the
\* ledger is the commit of one swap, which writes that swap's reserves to
\* its pool and appends one row for that pool; a commit that fails changes
\* neither.
C18_ReservesAndLedgerTogether ==
    [][/\ (pools' # pools \/ transactions' # transactions) =>
              \E s \in SwapSessions :
                  LET r == swapSess[s] IN
                  /\ SwapCommitted(s)
                  /\ pools' = [pools EXCEPT ![r.pool_id] =
                         [@ EXCEPT !.x_reserve = Quantize(r.pool.x_reserve),
                                   !.y_reserve = Quantize(r.pool.y_reserve)]]
                  /\ Len(transactions') = Len(transactions) + 1
                  /\ SubSeq(transactions', 1, Len(transactions)) = transactions
                  /\ transactions'[Len(transactions')].pool_id = r.pool_id
       /\ (\E s \in SwapSessions : SwapCommitted(s)) =>
              Len(transactions') = Len(transactions) + 1
      ]_vars

\* A commit has failed after another swap was committed.
C18_Witness ==
    /\ swapResp = "500"
    /\ Len(transactions) >= 1
    /\ \E pid \in DOMAIN pools : pools[pid] # seeded[pid]

C20_TransactionsAppendOnly ==
    [][\A t \in DOMAIN round_transactions :
           /\ t \in DOMAIN round_transactions'
           /\ round_transactions'[t] = round_transactions[t]
      ]_vars

\* C20 (amended): no operation modifies a Transaction row, and a row is
\* deleted exactly in the step that deletes its owning ExperimentRound or
\* its player: as long as both exist the row stays as it was created, and it
\* never outlives either of them.
C20_TransactionsRemovedOnlyByCascade ==
    [][\A t \in DOMAIN round_transactions :
           LET row == round_transactions[t]
           IN IF /\ row.experiment_round_id \in DOMAIN experiment_rounds'
                 /\ row.player_id \in users'
              THEN /\ t \in DOMAIN round_transactions'
                   /\ round_transactions'[t] = row
              ELSE t \notin DOMAIN round_transactions'
      ]_vars

\* delete_user has just deleted a player and with them the first recorded
\* Transaction, while the Transaction another player recorded after it is
\* kept with its pool instance.
C20_Witness ==
    /\ resp = [op |-> "delete_user", status |-> "ok"]
    /\ 1 \notin DOMAIN round_transactions
    /\ 2 \in DOMAIN round_transactions
    /\ round_transactions[2].experiment_round_id \in DOMAIN experiment_rounds
    /\ round_transactions[2].player_id \in users

\* The rows owned by pool instances: Transactions, PlayerBalances and
\* PlayerCurrencyKnowledge rows.
OwnedTables == <<round_transactions, player_balances, player_currency_knowledge>>

\* C21: no committed state holds a row of a deleted experiment.  Every Group
\* and Round belongs to an experiment that exists, every ExperimentRound to
\* a round and a group that exist, and every Transaction, PlayerBalance and
\* PlayerCurrencyKnowledge row to an ExperimentRound that exists: an
\* experiment goes together with all of them or not at all.
C21_DeleteExperimentIsAtomic ==
    /\ \A g \in DOMAIN groups : groups[g].experiment_id \in DOMAIN experiments
    /\ \A r \in DOMAIN rounds : rounds[r].experiment_id \in DOMAIN experiments
    /\ \A e \in DOMAIN experiment_rounds :
           /\ experiment_rounds[e].round_id \in DOMAIN rounds
           /\ experiment_rounds[e].group_id \in DOMAIN groups
    /\ \A i \in DOMAIN OwnedTables : \A t \in DOMAIN OwnedTables[i] :
           OwnedTables[i][t].experiment_round_id \in DOMAIN experiment_rounds

\* delete_experiment has just removed an experiment: a second request for
\* the same experiment, not yet committed, still holds the rows it loaded,
\* among them pool instances, a Transaction, a PlayerBalance and a
\* PlayerCurrencyKnowledge row.
C21_Witness ==
    /\ resp = [op |-> "delete_experiment", status |-> "ok"]
    /\ experiments = << >>
    /\ \E s \in Sessions :
           /\ sess[s].pc = "delete_experiment"
           /\ sess[s].seen.experiment_rounds # {}
           /\ sess[s].seen.transactions # {}
           /\ sess[s].seen.player_balances # {}
           /\ sess[s].seen.player_currency_knowledge # {}

(***************************************************************************)
(* Claims about the experiment lifecycle.                                  *)
(***************************************************************************)

\* C22: in every reachable state, every Experiment and every Round whose
\* ended_at is set also has started_at set.
C22_EndedImpliesStarted ==
    /\ \A e \in DOMAIN experiments :
           experiments[e].ended_at # NULL => experiments[e].started_at # NULL
    /\ \A r \in DOMAIN rounds :
           rounds[r].ended_at # NULL => rounds[r].started_at # NULL

\* An experiment and one of its rounds have both been ended.
C22_Witness ==
    \E e \in DOMAIN experiments, r \in DOMAIN rounds :
        /\ rounds[r].experiment_id = e
        /\ experiments[e].ended_at # NULL
        /\ rounds[r].ended_at # NULL

StartExperimentReturns(s) == sess[s].pc = "start_experiment" /\ sess'[s].pc = "idle"

EndExperimentReturns(s) == sess[s].pc = "end_experiment" /\ sess'[s].pc = "idle"

\* C23: with requests answered one at a time, start_experiment succeeds only
\* on an experiment whose started_at is unset and is rejected with
\* AlreadyStarted otherwise; end_experiment succeeds only on an experiment
\* whose started_at is set and whose ended_at is unset and is rejected with
\* NotStarted or AlreadyEnded otherwise; a rejected call changes no table,
\* and a successful one writes its timestamp and nothing else.
C23_ExperimentLifecycleMonotonic ==
    [][/\ \A status \in {"AlreadyStarted", "NotStarted", "AlreadyEnded", "ExperimentNotFound"} :
              (Rejected("start_experiment", status) \/ Rejected("end_experiment", status))
                  => UNCHANGED <<dbVars, ledgerVars>>
       /\ \A s \in Sessions, eid \in DOMAIN experiments :
              /\ (sess[s].pc = "idle" /\ experiments[eid].started_at # NULL)
                     => ~(sess'[s].pc = "start_experiment" /\ sess'[s].id = eid)
              /\ (sess[s].pc = "idle"
                    /\ (experiments[eid].started_at = NULL \/ experiments[eid].ended_at # NULL))
                     => ~(sess'[s].pc = "end_experiment" /\ sess'[s].id = eid)
       /\ \A s \in Sessions :
              /\ StartExperimentReturns(s) =>
                     LET e == sess[s].id IN
                     /\ experiments[e].started_at = NULL
                     /\ experiments'[e].started_at # NULL
                     /\ experiments' = [experiments EXCEPT
                                           ![e].started_at = experiments'[e].started_at]
                     /\ resp' = [op |-> "start_experiment", status |-> "ok"]
              /\ EndExperimentReturns(s) =>
                     LET e == sess[s].id IN
                     /\ experiments[e].started_at # NULL
                     /\ experiments[e].ended_at = NULL
                     /\ experiments'[e].ended_at # NULL
                     /\ experiments' = [experiments EXCEPT
                                           ![e].ended_at = experiments'[e].ended_at]
                     /\ resp' = [op |-> "end_experiment", status |-> "ok"]
       /\ (resp' # resp /\ resp'.op \in {"start_experiment", "end_experiment"}
              /\ resp'.status # "ok") => UNCHANGED <<dbVars, ledgerVars>>
      ]_vars

\* An experiment has been started and ended, and a further end_experiment
\* has been rejected.
C23_Witness ==
    /\ resp = [op |-> "end_experiment", status |-> "AlreadyEnded"]
    /\ \E e \in DOMAIN experiments :
           /\ experiments[e].started_at # NULL
           /\ experiments[e].ended_at # NULL

\* C24: swaps against different pools are independent.  The commit of a swap
\* leaves the row of every other pool and the ledger rows written so far
\* unchanged, and unless another swap was committed on its own pool since it
\* read the reserves, it leaves its pool and its ledger row exactly as if it
\* had run alone on the stored pool, whatever was committed on other pools in
\* between: so swaps on distinct pools end in the same rows in either order
\* and when interleaved.
C24_DistinctPoolsIndependent ==
    [][\A s \in SwapSessions :
           SwapCommitted(s) =>
               LET r == swapSess[s]
                   p == r.pool_id
                   alone == Pool_swap(r.dir, PoolObject(pools[p]), r.amount_in)
               IN /\ \A q \in DOMAIN pools \ {p} : pools'[q] = pools[q]
                  /\ SubSeq(transactions', 1, Len(transactions)) = transactions
                  /\ transactions'[Len(transactions')].pool_id = p
                  /\ r.seen = CommitsOn(p) =>
                         /\ pools'[p] = SerialSwap(pools[p], r)
                         /\ transactions'[Len(transactions')] =
                                create_transaction_record(p, CurrencyIn(r.dir),
                                    CurrencyOut(r.dir), r.amount_in, alone.amount_out)
      ]_vars

\* A swap has just been committed, both pools hold reserves other than the
\* seeded ones, and the committed swaps are on distinct pools.
C24_Witness ==
    /\ swapResp = "ok"
    /\ \A pid \in PoolIds : pid \in DOMAIN pools /\ pools[pid] # seeded[pid]
    /\ \E i, j \in 1..Len(committed) : committed[i].pool_id # committed[j].pool_id

\* A create_experiment call has returned in this step.
CreateExperimentReturns ==
    /\ resp'.op = "create_experiment"
    /\ resp' # resp \/ experiments' # experiments

\* C25: create_experiment with num_groups = N by an admin creates the
\* experiment together with exactly N Groups belonging to it, numbered 1..N,
\* each number once; a rejected call (N <= 0, or a creator who is not an
\* admin) creates neither an experiment nor a group.
C25_CreateExperimentCreatesGroups ==
    [][CreateExperimentReturns =>
           \/ /\ resp'.status \in {"422", "InvalidAdmin"}
              /\ UNCHANGED <<experiments, groups>>
           \/ /\ resp'.status = "ok"
              /\ \E eid \in DOMAIN experiments' \ DOMAIN experiments :
                    LET N == experiments'[eid].num_groups
                        new == DOMAIN groups' \ DOMAIN groups
                    IN /\ DOMAIN experiments' = DOMAIN experiments \cup {eid}
                       /\ experiments'[eid].created_by_id \in AdminUsers
                       /\ \A g \in DOMAIN groups : groups'[g] = groups[g]
                       /\ Cardinality(new) = N
                       /\ \A g \in new : groups'[g].experiment_id = eid
                       /\ \A n \in 1..N :
                              Cardinality({g \in new : groups'[g].group_number = n}) = 1
      ]_vars

\* C26: a swap is accepted only against a PlayerBalance row in the
\* in-currency that covers amount_in, and its commit debits amount_in from
\* that row and credits amount_out to a row of the same player and pool
\* instance in the out-currency; a swap the balance does not cover is
\* rejected and writes nothing, so no balance is negative.
C26_SwapsRespectBalances ==
    [][\A s \in SwapSessions :
           SwapCommitted(s) =>
               LET r == swapSess[s] IN
               \E b, c \in DOMAIN player_balances :
                   /\ player_balances[b].currency_id = CurrencyIn(r.dir)
                   /\ player_balances[c].currency_id = CurrencyOut(r.dir)
                   /\ player_balances[c].player_id = player_balances[b].player_id
                   /\ player_balances[c].experiment_round_id =
                          player_balances[b].experiment_round_id
                   /\ RatLe(r.amount_in, Dec(player_balances[b].balance))
                   /\ RatEq(Dec(player_balances'[b].balance),
                            RatSub(Dec(player_balances[b].balance), r.amount_in))
                   /\ RatEq(Dec(player_balances'[c].balance),
                            RatAdd(Dec(player_balances[c].balance), r.amount_out))
      ]_vars

\* The PlayerCurrencyKnowledge rows of a player for a pool instance.
KnowledgeOf(table, player_id, experiment_round_id) ==
    {k \in DOMAIN table : /\ table[k].player_id = player_id
                          /\ table[k].experiment_round_id = experiment_round_id}

\* C27: once a round is started and until it is ended, every player of every
\* group of the round has exactly one PlayerCurrencyKnowledge row for that
\* group's ExperimentRound, it names one of the round's two currencies, and
\* a step taken while the round is running leaves it as it was.
C27_KnowledgeTotalAndStable ==
    [][\A r \in DOMAIN rounds' :
           rounds'[r].started_at # NULL /\ rounds'[r].ended_at = NULL =>
               \A e \in DOMAIN experiment_rounds', p \in DOMAIN player_group' :
                   /\ experiment_rounds'[e].round_id = r
                   /\ player_group'[p] = experiment_rounds'[e].group_id
                   => LET after == KnowledgeOf(player_currency_knowledge', p, e)
                          before == KnowledgeOf(player_currency_knowledge, p, e)
                      IN /\ Cardinality(after) = 1
                         /\ \A k \in after :
                                player_currency_knowledge'[k].revealed_currency_id
                                    \in {"X", "Y"}
                         /\ \A k \in before :
                                /\ r \in DOMAIN rounds
                                /\ rounds[r].started_at # NULL
                                => /\ k \in after
                                   /\ player_currency_knowledge'[k] =
                                          player_currency_knowledge[k]
      ]_vars

\* |a - b| <= d
Within(a, b, d) == RatLe(RatSub(a, b), d) /\ RatLe(RatSub(b, a), d)

\* One unit in the last kept digit of a value v.
Ulp(v) ==
    IF v.n = 0 THEN Dec(0)
    ELSE LET e == Exponent(v)
         IN IF e >= 0 THEN Rat(Pow10(e), 1) ELSE Rat(1, Pow10(-e))

\* The second swap of a round trip is taken in this step.
RoundTripCompletes == call.n = 1 /\ call'.n = 2

\* C28: on a pool with x * y = K, swap_x_for_y(dx) with dx > 0 followed by
\* swap_y_for_x of the dy it returned succeeds, leaves each reserve within
\* one unit in the last place of its value before the round trip, and
\* returns dx within one unit in the last place of the reserve it is taken
\* from; where no operation was rounded, all three are exact.
C28_SwapRoundTrip ==
    [][RoundTripCompletes =>
           LET before == call.before
               dx == call.amount
           IN /\ call'.error = "none"
              /\ Within(poolObj'.x_reserve, before.x_reserve, Ulp(before.x_reserve))
              /\ Within(poolObj'.y_reserve, before.y_reserve, Ulp(before.y_reserve))
              /\ Within(call'.amount_out, dx, Ulp(call.after.x_reserve))
      ]_vars

\* Session s holds a swap of 100 X read from the pool at 1000 / 1000.
ExampleSwap(r) ==
    /\ r.pc = "swapped"
    /\ r.loaded = ExamplePool
    /\ r.dir = "x_for_y"
    /\ r.amount_in = Dec(100)

\* C29: on the pool 1000 / 1000 with K = 1,000,000, swap_x_for_y(100) gives
\* x = 1100, y = 1,000,000 / 1100 and an output of 1000 - 1,000,000 / 1100,
\* which lies between 90.9090 and 90.9091; the commit stores x = 1100 and y
\* rounded to the storable unit; the swap is never accepted with
\* min_amount_out = 91, and a request rejected for slippage leaves the pool
\* rows and the ledger as they were.
C29_WorkedExample ==
    [][/\ \A s \in SwapSessions :
              ExampleSwap(swapSess'[s]) /\ swapSess[s].pc = "idle" =>
                  LET r == swapSess'[s] IN
                  /\ r.pool.x_reserve = Dec(1100)
                  /\ RatEq(r.pool.y_reserve, Rat(1000000, 1100))
                  /\ RatEq(r.amount_out, RatSub(Dec(1000), Rat(1000000, 1100)))
                  /\ RatLt(Rat(909090, 10000), r.amount_out)
                  /\ RatLt(r.amount_out, Rat(909091, 10000))
                  /\ RatLt(r.min_amount_out, Dec(91))
       /\ \A s \in SwapSessions :
              ExampleSwap(swapSess[s]) /\ SwapCommitted(s) =>
                  /\ pools'[1].x_reserve = 1100
                  /\ pools'[1].y_reserve = 909
                  /\ pools'[1].K = 1000000
                  /\ transactions'[Len(transactions')].amount_in = 100
                  /\ transactions'[Len(transactions')].amount_out = 91
       /\ pools[1] = ExamplePool =>
              ~ENABLED (\E s \in SwapSessions :
                            swap_begin(s, 1, "x_for_y", Dec(100), Dec(91)))
       /\ swapResp' = "slippage" => pools' = pools /\ transactions' = transactions
      ]_vars

\* The example swap has been committed on the fresh pool.
C29_Witness ==
    /\ swapResp = "ok"
    /\ Len(transactions) = 1
    /\ committed[1].seen = 0
    /\ committed[1].dir = "x_for_y"
    /\ pools[1].x_reserve = 1100
    /\ pools[1].y_reserve = 909

\* C30: the template fields of a Round (here its experiment and its initial
\* reserves) are never changed once it is created; started_at is written
\* only by start_round and ended_at only by end_round.
C30_RoundTemplateImmutable ==
    [][\A r \in DOMAIN rounds \cap DOMAIN rounds' :
           /\ rounds'[r].experiment_id = rounds[r].experiment_id
           /\ rounds'[r].initial_reserve_x = rounds[r].initial_reserve_x
           /\ rounds'[r].initial_reserve_y = rounds[r].initial_reserve_y
           /\ rounds'[r].started_at # rounds[r].started_at =>
                  \E s \in Sessions : StartRoundReturns(s) /\ sess[s].id = r
           /\ rounds'[r].ended_at # rounds[r].ended_at =>
                  \E s \in Sessions : EndRoundReturns(s) /\ sess[s].id = r
      ]_vars

\* A call of add_liquidity or remove_liquidity has returned without error.
LiquidityChanged ==
    /\ call'.n = call.n + 1
    /\ call'.method \in LiquidityMethods
    /\ call'.error = "none"

\* C31: after every successful add_liquidity or remove_liquidity, K equals
\* exactly the product of the updated reserves, and each reserve differs
\* from its value before the call by exactly the delta given.
C31_LiquidityRecomputesK ==
    [][LiquidityChanged =>
           LET sign == IF call'.method = "add_liquidity" THEN 1 ELSE -1
               dx == Rat(sign * call'.amount.n, call'.amount.d)
               dy == Rat(sign * call'.amount_y.n, call'.amount_y.d)
           IN /\ RatEq(poolObj'.K, RatMul(poolObj'.x_reserve, poolObj'.y_reserve))
              /\ RatEq(poolObj'.x_reserve, RatAdd(poolObj.x_reserve, dx))
              /\ RatEq(poolObj'.y_reserve, RatAdd(poolObj.y_reserve, dy))
      ]_vars

\* C32: add_liquidity and remove_liquidity raise on a negative delta, and
\* remove_liquidity raises on a removal larger than either reserve; a call
\* that raises leaves x_reserve, y_reserve and K as they were, and no
\* reserve of the pool is negative.
C32_LiquidityRejections ==
    /\ ~RatLt(poolObj.x_reserve, Dec(0))
    /\ ~RatLt(poolObj.y_reserve, Dec(0))
    /\ call.method \in LiquidityMethods =>
           /\ (RatLt(call.amount, Dec(0)) \/ RatLt(call.amount_y, Dec(0)))
                  => call.error = "ValueError"
           /\ (/\ call.method = "remove_liquidity"
               /\ \/ RatLt(call.before.x_reserve, call.amount)
                  \/ RatLt(call.before.y_reserve, call.amount_y))
                  => call.error = "ValueError"
           /\ call.error = "ValueError" => call.after = call.before
           /\ ~RatLt(call.after.x_reserve, Dec(0))
           /\ ~RatLt(call.after.y_reserve, Dec(0))

\* remove_liquidity has been refused, after an earlier call changed the
\* pool, for a non-negative amount of X that exceeds the X reserve.
C32_Witness ==
    /\ call.method = "remove_liquidity"
    /\ call.n = 2
    /\ call.error = "ValueError"
    /\ ~RatLt(call.amount, Dec(0))
    /\ ~RatLt(call.amount_y, Dec(0))
    /\ RatLt(call.before.x_reserve, call.amount)
    /\ poolObj = call.before

RoundLookups == {"initialize_round_pools", "start_round", "end_round"}

ExperimentLookups == {"start_experiment", "end_experiment", "delete_experiment"}

\* C33: initialize_round_pools, start_round and end_round get past their
\* lookup only with the id of an existing round, and start_experiment,
\* end_experiment and delete_experiment only with the id of an existing
\* experiment; with no such row the answer is RoundNotFound or
\* ExperimentNotFound, and a request answered so changes no table.
C33_UnknownIdRejected ==
    [][/\ \A s \in Sessions :
              sess[s].pc = "idle" =>
                  /\ sess'[s].pc \in RoundLookups => sess'[s].id \in DOMAIN rounds
                  /\ sess'[s].pc \in ExperimentLookups => sess'[s].id \in DOMAIN experiments
       /\ (resp' # resp /\ resp'.op \in RoundLookups /\ DOMAIN rounds = {})
              => resp'.status = "RoundNotFound"
       /\ (resp' # resp /\ resp'.op \in ExperimentLookups /\ DOMAIN experiments = {})
              => resp'.status = "ExperimentNotFound"
       /\ (resp' # resp /\ resp'.status \in {"RoundNotFound", "ExperimentNotFound"}
               /\ resp'.op \in RoundLookups \cup ExperimentLookups)
              => UNCHANGED <<dbVars, ledgerVars, sess, clock>>
      ]_vars

\* end_round has been refused for an unknown id while a round with pool
\* instances is running.
C33_Witness ==
    /\ resp = [op |-> "end_round", status |-> "RoundNotFound"]
    /\ \E r \in DOMAIN rounds : rounds[r].started_at # NULL /\ rounds[r].ended_at = NULL
    /\ \E e \in DOMAIN experiment_rounds : experiment_rounds[e].is_active

\* C34: in every reachable state an ExperimentRound with is_active = true
\* belongs to a Round whose started_at is set and whose ended_at is not set,
\* however start_round, end_round and initialize_round_pools interleave.
C34_ActiveOnlyWhileRoundRuns ==
    \A e \in DOMAIN experiment_rounds :
        experiment_rounds[e].is_active =>
            /\ experiment_rounds[e].round_id \in DOMAIN rounds
            /\ rounds[experiment_rounds[e].round_id].started_at # NULL
            /\ rounds[experiment_rounds[e].round_id].ended_at = NULL

\* C35: every ExperimentRound goes Uninitialized -> Inactive -> Active ->
\* Closed without skipping a step: no ExperimentRound has ended_at set while
\* its own started_at is unset.
C35_NoEndWithoutStart ==
    \A e \in DOMAIN experiment_rounds :
        experiment_rounds[e].ended_at # NULL => experiment_rounds[e].started_at # NULL

\* The swap service and the experiment service on one database: swaps arrive
\* at any moment of a round's life.  The pool, the direction and the amount
\* do not matter to the round, so one swap request stands for all.
RoundSwapBegin ==
    \E s \in SwapSessions, dir \in Directions :
        /\ \A t \in SwapSessions : t < s => swapSess[t].pc # "idle"
        /\ swap_begin(s, CHOOSE p \in PoolIds : \A q \in PoolIds : p <= q,
                      dir, Dec(MaxAmountIn), Dec(0))

NextRoundSwap ==
    \/ CascadeCreateExperiment /\ OneAtATime
    \/ CascadeCreateRound /\ OneAtATime
    \/ InitializeBegin /\ OneAtATime
    \/ InitializeCommit
    \/ StartRoundBegin /\ OneAtATime
    \/ StartRoundCommit
    \/ EndRoundBegin /\ OneAtATime
    \/ EndRoundCommit
    \/ RoundSwapBegin
    \/ SwapCommit

SpecRoundSwap == InitSwap /\ [][NextRoundSwap]_vars

\* The pool instances that start_round has activated and end_round has not
\* yet closed.
ActivePoolInstances ==
    {e \in DOMAIN experiment_rounds : experiment_rounds[e].is_active}

RECURSIVE LedgerIn(_, _, _)
\* The sum of amount_in over the first i ledger rows of a pool whose
\* currency_in is the given currency.
LedgerIn(pid, currency, i) ==
    IF i = 0 THEN 0
    ELSE LedgerIn(pid, currency, i - 1)
         + (IF transactions[i].pool_id = pid /\ transactions[i].currency_in_id = currency
            THEN transactions[i].amount_in ELSE 0)

RECURSIVE LedgerOut(_, _, _)
\* The sum of amount_out over the first i ledger rows of a pool whose
\* currency_out is the given currency.
LedgerOut(pid, currency, i) ==
    IF i = 0 THEN 0
    ELSE LedgerOut(pid, currency, i - 1)
         + (IF transactions[i].pool_id = pid /\ transactions[i].currency_out_id = currency
            THEN transactions[i].amount_out ELSE 0)

\* C37: the ledger and the reserves agree: with no liquidity change, every
\* stored pool has reserve_x = seeded reserve_x + the amount_in of its
\* Transactions with currency-in X - the amount_out of those with
\* currency-out X, and likewise for reserve_y.
C37_LedgerMatchesReserves ==
    \A pid \in DOMAIN pools :
        LET n == Len(transactions) IN
        /\ pools[pid].x_reserve =
               seeded[pid].x_reserve + LedgerIn(pid, "X", n) - LedgerOut(pid, "X", n)
        /\ pools[pid].y_reserve =
               seeded[pid].y_reserve + LedgerIn(pid, "Y", n) - LedgerOut(pid, "Y", n)

\* C38: in every reachable state the number of Groups of an experiment
\* equals its num_groups and their group_numbers are exactly 1..num_groups,
\* after update_experiment as well.
C38_GroupsMatchNumGroups ==
    \A eid \in DOMAIN experiments :
        /\ Cardinality(GroupsOf(eid)) = experiments[eid].num_groups
        /\ {groups[g].group_number : g \in GroupsOf(eid)} = 1..experiments[eid].num_groups

\* The lifecycle of an experiment and of its round, with pool instances,
\* requests overlapping.
NextFrame ==
    \/ CascadeCreateExperiment
    \/ CascadeCreateRound
    \/ InitializeBegin /\ OneAtATime
    \/ InitializeCommit
    \/ StartExperimentBegin
    \/ StartExperimentCommit
    \/ EndExperimentBegin
    \/ EndExperimentCommit
    \/ StartRoundBegin
    \/ StartRoundCommit
    \/ EndRoundBegin
    \/ EndRoundCommit

SpecFrame == Init /\ [][NextFrame]_vars

\* A step of start_experiment or end_experiment: its lookup and checks, or
\* its commit.
ExperimentLifecycleStep ==
    \/ resp' # resp /\ resp'.op \in {"start_experiment", "end_experiment"}
    \/ \E s \in Sessions :
           /\ sess'[s] # sess[s]
           /\ {sess[s].pc, sess'[s].pc} \cap {"start_experiment", "end_experiment"} # {}

\* C39: start_experiment and end_experiment write only the experiment's own
\* started_at or ended_at: no Round, Group or ExperimentRound changes, so
\* ending an experiment ends no round and deactivates no pool; start_round
\* and end_round are refused only for the round's own state (missing,
\* already started, not started, already ended), whatever the lifecycle
\* state of the parent experiment, and once past their checks they succeed.
C39_ExperimentLifecycleFrame ==
    [][/\ ExperimentLifecycleStep =>
              UNCHANGED <<groups, rounds, experiment_rounds, ledgerVars>>
       /\ \A s \in Sessions :
              /\ StartExperimentReturns(s) =>
                     experiments' = [experiments EXCEPT
                         ![sess[s].id].started_at = experiments'[sess[s].id].started_at]
              /\ EndExperimentReturns(s) =>
                     experiments' = [experiments EXCEPT
                         ![sess[s].id].ended_at = experiments'[sess[s].id].ended_at]
              /\ StartRoundReturns(s) => resp' = [op |-> "start_round", status |-> "ok"]
              /\ EndRoundReturns(s) => resp' = [op |-> "end_round", status |-> "ok"]
       /\ (resp' # resp /\ resp'.op = "start_round" /\ resp'.status # "ok") =>
              \A r \in DOMAIN rounds : rounds[r].started_at # NULL
       /\ (resp' # resp /\ resp'.op = "end_round" /\ resp'.status # "ok") =>
              \A r \in DOMAIN rounds :
                  rounds[r].started_at = NULL \/ rounds[r].ended_at # NULL
      ]_vars

\* start_round has succeeded on a round of an experiment that had already
\* ended, and the round's pool instance is active.
C39_Witness ==
    /\ resp = [op |-> "start_round", status |-> "ok"]
    /\ \E r \in DOMAIN rounds, e \in DOMAIN experiment_rounds :
           /\ experiments[rounds[r].experiment_id].ended_at # NULL
           /\ rounds[r].started_at > experiments[rounds[r].experiment_id].ended_at
           /\ experiment_rounds[e].round_id = r
           /\ experiment_rounds[e].is_active

=============================================================================
